---- MODULE Spec2Model ----
(***************************************************************************)
(* The lazy tree search-and-reveal engine of the Repositories view:        *)
(* the query builders and reveal operations of RepositoriesView            *)
(* (src/src/views/repositoriesView.ts) running on the traversal engine,    *)
(* reveal orchestrator and re-entrancy guard of the view base class.       *)
(***************************************************************************)
EXTENDS Naturals, Sequences, FiniteSets, TLC

(***************************************************************************)
(* Bounds of the model.                                                    *)
(***************************************************************************)
\* commits per page of a branch's history
PageSize == 1
\* calls started in one behaviour
MaxCalls == 2

(***************************************************************************)
(* The logical tree.  A node is identified by its id, a path of segments;  *)
(* the id of a node extends the id of its parent, so the id of every node  *)
(* below a repository starts with the id of that RepositoryNode.           *)
(***************************************************************************)
Root == <<>>

\* RepositoryNode.getId(repoPath)
RepositoryNodeId(repoPath) == <<repoPath>>

\* BranchesNode.getId / StashesNode.getId / TagsNode.getId / WorktreesNode.getId
BranchesNodeId(repoPath) == <<repoPath, "branches">>
StashesNodeId(repoPath) == <<repoPath, "stashes">>
TagsNodeId(repoPath) == <<repoPath, "tags">>
WorktreesNodeId(repoPath) == <<repoPath, "worktrees">>
\* StashNode.getId / WorktreeNode.getId / ContributorNode.getId
StashNodeId(repoPath, ref) == <<repoPath, "stashes", ref>>
WorktreeNodeId(repoPath, uri) == <<repoPath, "worktrees", uri>>
ContributorNodeId(repoPath, name) == <<repoPath, "contributors", name>>

\* The tree: id |-> kind and the ordered segments of its children.
\* The children of a BranchNode are its commits, oldest page last.
Tree ==
  ( Root :> [kind |-> "RepositoriesNode", kids |-> <<"r2", "r1">>] )
  @@ ( <<"r1">> :> [kind |-> "RepositoryNode",
         kids |-> <<"branches", "remotes", "stashes", "tags", "worktrees", "contributors">>] )
  @@ ( <<"r1", "branches">> :> [kind |-> "BranchesNode", kids |-> <<"feature", "main">>] )
  @@ ( <<"r1", "branches", "main">> :> [kind |-> "BranchNode", kids |-> <<"a1", "a2">>] )
  @@ ( <<"r1", "branches", "feature">> :> [kind |-> "BranchOrTagFolderNode", kids |-> <<"x">>] )
  @@ ( <<"r1", "branches", "feature", "x">> :> [kind |-> "BranchNode", kids |-> <<"b1", "b2", "b3">>] )
  @@ ( <<"r1", "remotes">> :> [kind |-> "RemotesNode", kids |-> <<"upstream", "origin">>] )
  @@ ( <<"r1", "remotes", "origin">> :> [kind |-> "RemoteNode", kids |-> <<"feature">>] )
  @@ ( <<"r1", "remotes", "origin", "feature">> :> [kind |-> "BranchNode", kids |-> <<"d1", "d2", "d3">>] )
  @@ ( <<"r1", "remotes", "upstream">> :> [kind |-> "RemoteNode", kids |-> <<"feature">>] )
  @@ ( <<"r1", "remotes", "upstream", "feature">> :> [kind |-> "BranchNode", kids |-> <<"d1">>] )
  @@ ( <<"r1", "stashes">> :> [kind |-> "StashesNode", kids |-> <<"s0">>] )
  @@ ( <<"r1", "tags">> :> [kind |-> "TagsNode", kids |-> <<"v1">>] )
  @@ ( <<"r1", "worktrees">> :> [kind |-> "WorktreesNode", kids |-> <<"w1">>] )
  @@ ( <<"r1", "contributors">> :> [kind |-> "ContributorsNode", kids |-> <<"alice">>] )
  @@ ( <<"r2">> :> [kind |-> "RepositoryNode", kids |-> <<"branches", "tags">>] )
  @@ ( <<"r2", "branches">> :> [kind |-> "BranchesNode", kids |-> <<"main">>] )
  @@ ( <<"r2", "branches", "main">> :> [kind |-> "BranchNode", kids |-> <<"a1", "b1">>] )
  @@ ( <<"r2", "tags">> :> [kind |-> "TagsNode", kids |-> <<"v1">>] )

LeafKind ==
  [BranchNode |-> "CommitNode", StashesNode |-> "StashNode", TagsNode |-> "TagNode",
   WorktreesNode |-> "WorktreeNode", ContributorsNode |-> "ContributorNode"]

Inner == DOMAIN Tree
Parent(n) == SubSeq(n, 1, Len(n) - 1)
Last(s) == s[Len(s)]
AllChildren(n) == IF n \in Inner THEN [i \in 1..Len(Tree[n].kids) |-> Append(n, Tree[n].kids[i])]
                  ELSE <<>>
Range(s) == {s[i] : i \in 1..Len(s)}
Nodes == Inner \cup UNION {Range(AllChildren(n)) : n \in Inner}
Kind(n) == IF n \in Inner THEN Tree[n].kind ELSE LeafKind[Tree[Parent(n)].kind]

\* id.startsWith(prefix)
StartsWith(id, prefix) ==
  /\ Len(prefix) <= Len(id)
  /\ SubSeq(id, 1, Len(prefix)) = prefix
\* m lies strictly below n
IsDescendant(m, n) == Len(m) > Len(n) /\ StartsWith(m, n)
\* traversal depth from the search root
Depth(n) == Len(n)

Min(a, b) == IF a <= b THEN a ELSE b
Max(a, b) == IF a >= b THEN a ELSE b

\* the absent node (undefined)
NoNode == <<"undefined">>

(***************************************************************************)
(* Payloads.  Names and refs are paths of segments ("feature/x" is         *)
(* <<"feature", "x">>), so splitting at '/' is taking segments.            *)
(***************************************************************************)
\* n.branch.name and n.branch.ref of a BranchNode
BranchName(n) == SubSeq(n, 3, Len(n))
\* n.remote.name of a RemoteNode
RemoteName(n) == n[3]
\* n.tag.ref of a TagNode
TagRef(n) == SubSeq(n, 3, Len(n))
\* n.commit.ref of a CommitNode
CommitRef(n) == <<Last(n)>>
\* GitBranch.getRemote(name): the segment before the first '/'
GetRemote(name) == name[1]

\* pg maps the nodes whose children are materialized to the pages loaded
Loaded(pg, n) == IF n \in DOMAIN pg THEN pg[n] ELSE 0
SetLoaded(pg, n, k) == [m \in DOMAIN pg \cup {n} |-> IF m = n THEN k ELSE pg[m]]
NoPages == [n \in {} |-> 0]

\* only a branch's commit history is paged
Pageable(n) == Kind(n) = "BranchNode"
PagesOf(len) == (len + PageSize - 1) \div PageSize
\* the children of n materialized when pg[n] pages of it are loaded
MaterializedChildren(n, pg) ==
  IF Loaded(pg, n) = 0 THEN <<>>
  ELSE IF Pageable(n)
       THEN SubSeq(AllChildren(n), 1, Min(Loaded(pg, n) * PageSize, Len(AllChildren(n))))
       ELSE AllChildren(n)
HasMore(n, pg) == Pageable(n) /\ Loaded(pg, n) * PageSize < Len(AllChildren(n))
\* the page of branch node b that holds commit ref (0: not in its history)
PageOfRef(b, ref) ==
  LET idx == {i \in 1..Len(Tree[b].kids) : <<Tree[b].kids[i]>> = ref}
  IN  IF idx = {} THEN 0 ELSE PagesOf(CHOOSE i \in idx : TRUE)
\* pages loaded after one more page of n is loaded
PagesAfterLoadMore(n, pg) ==
  IF HasMore(n, pg) THEN Loaded(pg, n) + 1 ELSE Loaded(pg, n)
\* pages loaded after BranchNode.loadMore({until: ref})
PagesAfterLoadUntil(b, ref, pg) ==
  Max(Loaded(pg, b), IF PageOfRef(b, ref) = 0 THEN PagesOf(Len(Tree[b].kids)) ELSE PageOfRef(b, ref))

(***************************************************************************)
(* The data provider: the branches of a repository containing a commit.    *)
(***************************************************************************)
GetCommitBranches(repoPath, ref, remotes) ==
  { BranchName(b) : b \in { n \in Inner :
        /\ Kind(n) = "BranchNode"
        /\ n[1] = repoPath
        /\ (n[2] = "remotes") = remotes
        /\ PageOfRef(n, ref) > 0 } }

(***************************************************************************)
(* Query builders: the matcher, canTraverse, maxDepth and allowPaging each *)
(* find operation hands to findNode.                                       *)
(***************************************************************************)
\* findBranch, remote branch
FindBranchRemoteAnyRemote(n, repoPath, name, remote) ==
  IF Kind(n) = "RepositoriesNode" THEN TRUE
  ELSE IF Kind(n) \in {"RepositoryNode", "BranchesNode", "RemotesNode", "RemoteNode",
                       "BranchOrTagFolderNode"}
       THEN StartsWith(n, RepositoryNodeId(repoPath))
  ELSE FALSE
FindBranchRemoteCanTraverse(n, repoPath, name, remote) ==
  IF Kind(n) = "RepositoriesNode" THEN TRUE
  ELSE IF Kind(n) = "RemoteNode"
       THEN IF ~StartsWith(n, RepositoryNodeId(repoPath)) THEN FALSE
            ELSE remote /\ RemoteName(n) = GetRemote(name)
  ELSE IF Kind(n) \in {"RepositoryNode", "BranchesNode", "RemotesNode", "BranchOrTagFolderNode"}
       THEN StartsWith(n, RepositoryNodeId(repoPath))
  ELSE FALSE

\* findBranch, local branch
FindBranchLocalAnySection(n, repoPath) ==
  IF Kind(n) = "RepositoriesNode" THEN TRUE
  ELSE IF Kind(n) \in {"RepositoryNode", "BranchesNode", "BranchOrTagFolderNode",
                       "RemotesNode", "RemoteNode", "TagsNode"}
       THEN StartsWith(n, RepositoryNodeId(repoPath))
  ELSE FALSE
FindBranchLocalCanTraverse(n, repoPath) ==
  IF Kind(n) = "RepositoriesNode" THEN TRUE
  ELSE IF Kind(n) \in {"RepositoryNode", "BranchesNode", "BranchOrTagFolderNode"}
       THEN StartsWith(n, RepositoryNodeId(repoPath))
  ELSE FALSE

\* findCommit on local branches: canTraverse awaits loadMore({until}) on these nodes
FindCommitLocalLoadMoreMutant(n, repoPath, branches) ==
  Kind(n) = "BranchNode"
FindCommitLocalNoLoadMore(n, repoPath, branches) == FALSE
FindCommitLocalLoadMore(n, repoPath, branches) ==
  /\ Kind(n) = "BranchNode"
  /\ StartsWith(n, RepositoryNodeId(repoPath))
  /\ BranchName(n) \in branches

FindCommitLocalAnyBranch(n, repoPath, branches) ==
  IF Kind(n) = "RepositoriesNode" THEN TRUE
  ELSE IF Kind(n) \in {"RepositoryNode", "BranchesNode", "BranchOrTagFolderNode", "BranchNode"}
       THEN StartsWith(n, RepositoryNodeId(repoPath))
  ELSE FALSE
FindCommitLocalCanTraverse(n, repoPath, branches) ==
  IF Kind(n) = "RepositoriesNode" THEN TRUE
  ELSE IF /\ Kind(n) = "BranchNode"
          /\ StartsWith(n, RepositoryNodeId(repoPath))
          /\ BranchName(n) \in branches
       THEN TRUE
  ELSE IF Kind(n) \in {"RepositoryNode", "BranchesNode", "BranchOrTagFolderNode"}
       THEN StartsWith(n, RepositoryNodeId(repoPath))
  ELSE FALSE

\* findCommit on remote branches; remotes = branches.map(b => b.split('/', 1)[0])
FindCommitRemotes(branches) == {b[1] : b \in branches}
FindCommitRemoteCanTraverse(n, repoPath, branches) ==
  IF Kind(n) = "RepositoriesNode" THEN TRUE
  ELSE IF Kind(n) = "RemoteNode"
       THEN StartsWith(n, RepositoryNodeId(repoPath)) /\ RemoteName(n) \in FindCommitRemotes(branches)
  ELSE IF Kind(n) = "BranchNode"
       THEN StartsWith(n, RepositoryNodeId(repoPath)) /\ BranchName(n) \in branches
  ELSE IF Kind(n) \in {"RepositoryNode", "RemotesNode", "BranchOrTagFolderNode"}
       THEN StartsWith(n, RepositoryNodeId(repoPath))
  ELSE FALSE

\* findContributor, findRemote, findStash, findTag, findWorktree
FindContributorCanTraverse(n, repoPath) ==
  IF Kind(n) = "RepositoriesNode" THEN TRUE
  ELSE IF Kind(n) \in {"RepositoryNode", "ContributorsNode"}
       THEN StartsWith(n, RepositoryNodeId(repoPath))
  ELSE FALSE
FindRemoteCanTraverse(n, repoPath) ==
  IF Kind(n) = "RepositoriesNode" THEN TRUE
  ELSE IF Kind(n) \in {"RepositoryNode", "RemotesNode"}
       THEN StartsWith(n, RepositoryNodeId(repoPath))
  ELSE FALSE
FindStashCanTraverse(n, repoPath) ==
  IF Kind(n) = "RepositoriesNode" THEN TRUE
  ELSE IF Kind(n) \in {"RepositoryNode", "StashesNode"}
       THEN StartsWith(n, RepositoryNodeId(repoPath))
  ELSE FALSE
FindTagAnyRepository(n, repoPath) ==
  Kind(n) \in {"RepositoriesNode", "RepositoryNode", "TagsNode", "BranchOrTagFolderNode"}
FindTagCanTraverse(n, repoPath) ==
  IF Kind(n) = "RepositoriesNode" THEN TRUE
  ELSE IF Kind(n) \in {"RepositoryNode", "TagsNode", "BranchOrTagFolderNode"}
       THEN StartsWith(n, RepositoryNodeId(repoPath))
  ELSE FALSE
FindWorktreeCanTraverse(n, repoPath) ==
  IF Kind(n) = "RepositoriesNode" THEN TRUE
  ELSE IF Kind(n) \in {"RepositoryNode", "WorktreesNode"}
       THEN StartsWith(n, RepositoryNodeId(repoPath))
  ELSE FALSE

\* revealBranches, revealStashes, revealTags, revealWorktrees: the section node
RevealSectionCanTraverse(n, repoPath) ==
  IF Kind(n) = "RepositoriesNode" THEN TRUE
  ELSE IF Kind(n) = "RepositoryNode" THEN StartsWith(n, RepositoryNodeId(repoPath))
  ELSE FALSE
\* revealRepository
RevealRepositoryCanTraverse(n) == Kind(n) = "RepositoriesNode"

\* The searches: what each find hands to findNode.
Finds == {"findBranchRemote", "findBranchLocal", "findCommitLocal", "findCommitRemote",
          "findContributor", "findRemote", "findStash", "findTag", "findWorktree",
          "revealBranches", "revealStashes", "revealTags", "revealWorktrees",
          "revealRepository", "findNode", "findNodeById"}

\* the matcher: a predicate over the node's payload, or equality with an id
Matches(find, n, repoPath, ref) ==
  CASE find \in {"findBranchRemote", "findBranchLocal"} ->
         Kind(n) = "BranchNode" /\ BranchName(n) = ref
    [] find \in {"findCommitLocal", "findCommitRemote", "findNode"} ->
         Kind(n) = "CommitNode" /\ CommitRef(n) = ref
    [] find = "findRemote" -> Kind(n) = "RemoteNode" /\ <<RemoteName(n)>> = ref
    [] find = "findTag" -> Kind(n) = "TagNode" /\ TagRef(n) = ref
    [] find = "findContributor" -> n = ContributorNodeId(repoPath, ref[1])
    [] find = "findStash" -> n = StashNodeId(repoPath, ref[1])
    [] find = "findWorktree" -> n = WorktreeNodeId(repoPath, ref[1])
    [] find = "revealBranches" -> n = BranchesNodeId(repoPath)
    [] find = "revealStashes" -> n = StashesNodeId(repoPath)
    [] find = "revealTags" -> n = TagsNodeId(repoPath)
    [] find = "revealWorktrees" -> n = WorktreesNodeId(repoPath)
    [] find = "revealRepository" -> n = RepositoryNodeId(repoPath)
    [] find = "findNodeById" -> n = ref

\* the depth bound of a direct findNode call
FindNodeMaxDepth == 5

MaxDepthOf(find) ==
  CASE find = "findBranchRemote" -> 6
    [] find = "findBranchLocal" -> 5
    [] find = "findCommitLocal" -> 6
    [] find = "findCommitRemote" -> 8
    [] find = "findContributor" -> 2
    [] find = "findRemote" -> 2
    [] find = "findStash" -> 3
    [] find = "findTag" -> 5
    [] find = "findWorktree" -> 2
    [] find \in {"revealBranches", "revealStashes", "revealTags", "revealWorktrees"} -> 2
    [] find = "revealRepository" -> 1
    [] find \in {"findNode", "findNodeById"} -> FindNodeMaxDepth

\* allowPaging, false when the call does not give it; given is what a direct
\* findNode call passes
AllowPagingOfMutant(find, given) ==
  \/ find \in {"findBranchRemote", "findBranchLocal", "findCommitLocal", "findRemote", "findTag"}
  \/ find \in {"findNode", "findNodeById"} /\ given
AllowPagingOf(find, given) ==
  \/ find \in {"findBranchRemote", "findBranchLocal", "findCommitLocal", "findCommitRemote",
               "findRemote", "findTag"}
  \/ find \in {"findNode", "findNodeById"} /\ given

CanTraverse(find, n, repoPath, ref, remote, branches) ==
  CASE find = "findBranchRemote" -> FindBranchRemoteCanTraverse(n, repoPath, ref, remote)
    [] find = "findBranchLocal" -> FindBranchLocalCanTraverse(n, repoPath)
    [] find = "findCommitLocal" -> FindCommitLocalCanTraverse(n, repoPath, branches)
    [] find = "findCommitRemote" -> FindCommitRemoteCanTraverse(n, repoPath, branches)
    [] find = "findContributor" -> FindContributorCanTraverse(n, repoPath)
    [] find = "findRemote" -> FindRemoteCanTraverse(n, repoPath)
    [] find = "findStash" -> FindStashCanTraverse(n, repoPath)
    [] find = "findTag" -> FindTagCanTraverse(n, repoPath)
    [] find = "findWorktree" -> FindWorktreeCanTraverse(n, repoPath)
    [] find \in {"revealBranches", "revealStashes", "revealTags", "revealWorktrees"} ->
         RevealSectionCanTraverse(n, repoPath)
    [] find = "revealRepository" -> RevealRepositoryCanTraverse(n)
    [] find \in {"findNode", "findNodeById"} -> TRUE

\* whether canTraverse awaits a loadMore({until}) on n before it answers
CanTraverseLoadsMore(find, n, repoPath, branches) ==
  find = "findCommitLocal" /\ FindCommitLocalLoadMore(n, repoPath, branches)

(***************************************************************************)
(* The reveal operations of RepositoriesView.                              *)
(***************************************************************************)
Methods == {"revealBranch", "revealBranches", "revealCommit", "revealContributor",
            "revealRemote", "revealRepository", "revealStash", "revealStashes",
            "revealTag", "revealTags", "revealWorktree", "revealWorktrees"}

\* the operations run under window.withProgress({cancellable: true}) and pass its token
Cancellable(method) ==
  method \in {"revealBranch", "revealCommit", "revealContributor", "revealRemote",
              "revealStash", "revealTag", "revealWorktree"}

\* the operations that carry the @gate(() => '') decorator
GatedMutant(method) == method \notin {"revealBranch"}
Gated(method) == method \in Methods

\* the resolver of the decorator: () => ''
GateResolver(repoPath, ref) == ""
\* the guard's key: the operation's identity and the resolver's answer
GateKey(method, repoPath, ref) == <<method, GateResolver(repoPath, ref)>>

\* the search a reveal operation starts with ("" for revealCommit, whose
\* findCommit first resolves the branches containing the commit)
FindOf(method, remote) ==
  CASE method = "revealBranch" -> IF remote THEN "findBranchRemote" ELSE "findBranchLocal"
    [] method = "revealCommit" -> ""
    [] method = "revealContributor" -> "findContributor"
    [] method = "revealRemote" -> "findRemote"
    [] method = "revealStash" -> "findStash"
    [] method = "revealTag" -> "findTag"
    [] method = "revealWorktree" -> "findWorktree"
    [] method = "findNode" -> "findNode"
    [] OTHER -> method

\* what the operation does with the result of its find step:
\* result is "node", "undefined" or "error" (the awaited find rejected)
AfterFindSwallowMutant(method, result) ==
  IF result = "node" THEN "ensureRevealNode" ELSE "undefined"
AfterFindRevealMutant(method, result) ==
  IF result = "error" THEN "throw" ELSE "reveal"
AfterFind(method, result) ==
  IF result = "error" THEN "throw"
  ELSE IF method \in {"revealBranch", "revealCommit", "revealContributor", "revealRemote",
                      "revealTag", "revealWorktree"}
       THEN IF result = "undefined" THEN "undefined" ELSE "ensureRevealNode"
  ELSE IF result = "undefined" THEN "undefined" ELSE "reveal"

\* findCommit after the local, and after the remote, containment query
FindCommitAfterLocalAlwaysRemote(branches) == "resolveRemote"
FindCommitAfterLocal(branches) ==
  IF branches # {} THEN "findCommitLocal" ELSE "resolveRemote"
FindCommitAfterRemote(branches) ==
  IF branches = {} THEN "undefined" ELSE "findCommitRemote"

(***************************************************************************)
(* The reveal orchestrator: the UI operations of one reveal, in the order  *)
(* they are issued; each is awaited before the next is issued.             *)
(***************************************************************************)
UiOp(op, n) == [op |-> op, n |-> n]
RevealStepsLeafFirst(node, opts) ==
  [i \in 1..(Len(node) - 1) |-> UiOp("expand", SubSeq(node, 1, Len(node) - i))]
    \o (IF opts.select THEN <<UiOp("select", node)>> ELSE <<>>)
    \o (IF opts.focus THEN <<UiOp("focus", node)>> ELSE <<>>)
    \o (IF opts.expand THEN <<UiOp("expand", node)>> ELSE <<>>)
RevealStepsSelectFirst(node, opts) ==
  (IF opts.select THEN <<UiOp("select", node)>> ELSE <<>>)
    \o (IF opts.focus THEN <<UiOp("focus", node)>> ELSE <<>>)
    \o [i \in 1..(Len(node) - 1) |-> UiOp("expand", SubSeq(node, 1, i))]
    \o (IF opts.expand THEN <<UiOp("expand", node)>> ELSE <<>>)
RevealSteps(node, opts) ==
  [i \in 1..(Len(node) - 1) |-> UiOp("expand", SubSeq(node, 1, i))]
    \o (IF opts.select THEN <<UiOp("select", node)>> ELSE <<>>)
    \o (IF opts.focus THEN <<UiOp("focus", node)>> ELSE <<>>)
    \o (IF opts.expand THEN <<UiOp("expand", node)>> ELSE <<>>)

(***************************************************************************)
(* State.                                                                  *)
(*   call[t]  the reveal operation caller t has in flight: its position    *)
(*            (pc), arguments, search state, and what it did so far        *)
(*   pages    pages of children materialized per node (0: not yet)         *)
(*   ncalls   operations started                                           *)
(*   selectedRepository, currentLog, repoDisposable                        *)
(*            the fields of GraphWebview                                   *)
(*   gjob     the asynchronous operations of GraphWebview in flight        *)
(*   gops     operations of GraphWebview started                           *)
(*   repoVer  how often each open repository has changed                   *)
(*   stashCommits, stashLog   the stash list and the log getState was      *)
(*            given by its getters                                         *)
(*   filteredStashCommits, stateCommits   what getState made of them       *)
(*   configAutoRefresh   the views.repositories.autoRefresh setting        *)
(*   storedAutoRefresh   the workspace auto-refresh flag in storage        *)
(*   contextAutoRefresh  the auto-refresh context key                      *)
(*   fired    how often onDidChangeAutoRefresh has fired                   *)
(*   rjob     the setAutoRefresh calls in flight                           *)
(*   rops     setAutoRefresh calls started                                 *)
(***************************************************************************)
VARIABLES call, pages, ncalls,
          selectedRepository, currentLog, repoDisposable, gjob, gops, repoVer,
          stashCommits, stashLog, filteredStashCommits, stateCommits,
          configAutoRefresh, storedAutoRefresh, contextAutoRefresh, fired, rjob, rops
viewVars == <<call, pages, ncalls>>
graphVars == <<selectedRepository, currentLog, repoDisposable, gjob, gops, repoVer>>
stashVars == <<stashCommits, stashLog, filteredStashCommits, stateCommits>>
refreshVars == <<configAutoRefresh, storedAutoRefresh, contextAutoRefresh, fired, rjob, rops>>
vars == <<call, pages, ncalls,
          selectedRepository, currentLog, repoDisposable, gjob, gops, repoVer,
          stashCommits, stashLog, filteredStashCommits, stateCommits,
          configAutoRefresh, storedAutoRefresh, contextAutoRefresh, fired, rjob, rops>>

Tasks == {1, 2}

Options == { [select |-> TRUE, focus |-> TRUE, expand |-> FALSE],
             [select |-> FALSE, focus |-> FALSE, expand |-> TRUE] }

\* the arguments the callers draw from; allowPaging is read by findNode alone
Arg(method, repoPath, ref, remote) ==
  [method |-> method, repoPath |-> repoPath, ref |-> ref, remote |-> remote,
   allowPaging |-> FALSE]
Targets ==
  { Arg("revealBranch", "r1", <<"main">>, FALSE),
    Arg("revealBranch", "r1", <<"feature", "x">>, FALSE),
    Arg("revealBranch", "r1", <<"origin", "feature">>, TRUE),
    Arg("revealBranch", "r2", <<"main">>, FALSE),
    Arg("revealBranch", "r1", <<"gone">>, FALSE),
    Arg("revealBranches", "r1", <<>>, FALSE),
    Arg("revealBranches", "r3", <<>>, FALSE),
    Arg("revealCommit", "r1", <<"b3">>, FALSE),
    Arg("revealCommit", "r1", <<"a1">>, FALSE),
    Arg("revealCommit", "r1", <<"d3">>, FALSE),
    Arg("revealCommit", "r1", <<"zz">>, FALSE),
    Arg("revealContributor", "r1", <<"alice">>, FALSE),
    Arg("revealRemote", "r1", <<"origin">>, FALSE),
    Arg("revealRepository", "r1", <<>>, FALSE),
    Arg("revealRepository", "r3", <<>>, FALSE),
    Arg("revealStash", "r1", <<"s0">>, FALSE),
    Arg("revealStash", "r1", <<"s9">>, FALSE),
    Arg("revealStashes", "r1", <<>>, FALSE),
    Arg("revealStashes", "r2", <<>>, FALSE),
    Arg("revealTag", "r1", <<"v1">>, FALSE),
    Arg("revealTags", "r2", <<>>, FALSE),
    Arg("revealWorktree", "r1", <<"w1">>, FALSE),
    Arg("revealWorktrees", "r1", <<>>, FALSE),
    [Arg("findNode", "r1", <<"d3">>, FALSE) EXCEPT !.allowPaging = TRUE],
    Arg("findNode", "r1", <<"d3">>, FALSE),
    [Arg("findNode", "r1", <<"b1">>, FALSE) EXCEPT !.allowPaging = TRUE],
    Arg("findNode", "r1", <<"b1">>, FALSE),
    Arg("findNodeById", "", Root, FALSE) }

\* the arguments drawn when two callers run together
GateTargets ==
  { tg \in Targets :
      \/ tg.method = "revealBranch" /\ tg.ref \in {<<"main">>, <<"feature", "x">>} /\ tg.repoPath = "r1"
      \/ tg.method = "revealCommit" /\ tg.ref \in {<<"b3">>, <<"d3">>}
      \/ tg.method = "revealTag" }
GateOptions == { o \in Options : o.select }

IdleCall ==
  [pc |-> "idle", method |-> "", repoPath |-> "", ref |-> <<>>, remote |-> FALSE,
   allowPaging |-> FALSE, pages0 |-> NoPages, result |-> "pending",
   cancelPc |-> "",
   opts |-> [select |-> FALSE, focus |-> FALSE, expand |-> FALSE],
   find |-> "", branches |-> {}, queue |-> <<>>, cur |-> Root,
   cancelled |-> FALSE, cancelAt |-> 0, trace |-> <<>>,
   node |-> NoNode, outcome |-> "none", steps |-> <<>>, step |-> 0, ui |-> <<>>,
   waited |-> FALSE]

\* GraphWebview: the bounds, the open repositories and their commit logs
\* commits in the linear log of a repository
LogLength == 4
\* graph.pageLimit of the configuration
GraphPageLimit == 1
\* operations of GraphWebview started in one behaviour
MaxGraphOps == 3
\* changes of one repository in one behaviour
MaxRepoChanges == 1

\* container.git.openRepositories, by path
GraphRepos == {"r1", "r2"}
GraphJobs == {1, 2}
Undefined == "undefined"
\* a GitLog: the first count commits of the log of repoPath, read when the
\* repository had changed ver times; the absent log is UndefinedLog
UndefinedLog == [repoPath |-> Undefined, count |-> 0, ver |-> 0]
LogCommits(log) == {<<log.repoPath, i>> : i \in 1..log.count}
\* an optional value: None is undefined, Some(x) is the value x
None == <<>>
Some(x) == <<x>>
\* a call of setAutoRefresh: its number, caller and arguments, the await it is
\* suspended at and how often it fired the event
RefreshJobs == {1, 2}
IdleRefresh ==
  [pc |-> "idle", op |-> 0, kind |-> "", enabled |-> FALSE, workspaceEnabled |-> None,
   fired |-> 0]
IdleJob ==
  [pc |-> "idle", kind |-> "", limit |-> <<>>, path |-> Undefined, same |-> FALSE,
   log |-> UndefinedLog, repo |-> Undefined, sent |-> UndefinedLog, notified |-> 0]

Init ==
  /\ call = [t \in Tasks |-> IdleCall]
  /\ pages = NoPages
  /\ ncalls = 0
  /\ selectedRepository = Undefined
  /\ currentLog = UndefinedLog
  /\ repoDisposable = Undefined
  /\ gjob = [j \in GraphJobs |-> IdleJob]
  /\ gops = 0
  /\ repoVer = [r \in GraphRepos |-> 0]
  /\ stashCommits = None
  /\ stashLog = UndefinedLog
  /\ filteredStashCommits = None
  /\ stateCommits = None
  /\ configAutoRefresh = TRUE
  /\ storedAutoRefresh = None
  /\ contextAutoRefresh = None
  /\ fired = 0
  /\ rjob = [j \in RefreshJobs |-> IdleRefresh]
  /\ rops = 0

InFlight(c) == c.pc \notin {"idle", "done"}

\* what a call did, in order: ev is "test" (matcher applied to n, popped from
\* the frontier), "peek" (matcher applied to n, a child looked at by the
\* paging step to decide whether another page is needed), "prune"
\* (canTraverse(n) false), "children" (children() of n requested), "page" (load
\* more of n requested by the engine), "until" (loadMore({until}) of n requested
\* by canTraverse), "resolveLocal"/"resolveRemote" (containment queried),
\* "cancelSeen" (the engine saw the token cancelled)
Log(c, e, n) == [c EXCEPT !.trace = Append(@, [ev |-> e, n |-> n])]
RECURSIVE LogAll(_, _, _)
LogAll(c, e, ns) == IF ns = <<>> THEN c ELSE LogAll(Log(c, e, Head(ns)), e, Tail(ns))

(***************************************************************************)
(* The reveal orchestrator and the end of an operation.                    *)
(***************************************************************************)
OutcomeOf(c) == IF c.node = NoNode THEN "undefined" ELSE "node"

StartReveal(c) ==
  LET steps == RevealSteps(c.node, c.opts)
  IN  IF steps = <<>>
      THEN [c EXCEPT !.pc = "done", !.outcome = OutcomeOf(c)]
      ELSE [c EXCEPT !.pc = "ui", !.steps = steps, !.step = 1,
                     !.ui = <<[ev |-> "issue", op |-> steps[1].op, n |-> steps[1].n]>>]

\* a UI operation of the reveal failed: the failure is logged, the reveal stops
\* where it is, and the operation still returns its node
UiFailedMutant(c) ==
  [c EXCEPT !.pc = "done", !.outcome = "error",
            !.ui = Append(@, [ev |-> "fail", op |-> c.steps[c.step].op, n |-> c.steps[c.step].n])]
UiFailed(c) ==
  [c EXCEPT !.pc = "done", !.outcome = OutcomeOf(c),
            !.ui = Append(@, [ev |-> "fail", op |-> c.steps[c.step].op, n |-> c.steps[c.step].n])]

\* the find step of the operation ended: with a node, undefined, or an error
FindReturned(c, result, node) ==
  LET act == IF c.method \in {"findNode", "findNodeById"} THEN (IF result = "error" THEN "throw" ELSE "return")
             ELSE AfterFind(c.method, result)
      c1 == [c EXCEPT !.node = node, !.queue = <<>>, !.result = result]
  IN  CASE act = "throw" -> [c1 EXCEPT !.pc = "done", !.outcome = "error"]
        [] act = "return" -> [c1 EXCEPT !.pc = "done", !.outcome = result]
        [] act = "undefined" -> [c1 EXCEPT !.pc = "done", !.outcome = "undefined"]
        [] OTHER -> StartReveal(c1)

(***************************************************************************)
(* The traversal engine (findNode).  The operators below run the walk from *)
(* one suspension point to the next: they end in a call that awaits a      *)
(* fetch (pc "children", "page", "loadUntil") or whose find step returned. *)
(***************************************************************************)
EventsOf(c, e) == {c.trace[i].n : i \in {j \in 1..Len(c.trace) : c.trace[j].ev = e}}

\* step 4: a node at depth >= maxDepth does not have its children enqueued
DepthPrunesMutant(n, maxDepth) == Depth(n) > maxDepth
DepthPrunes(n, maxDepth) == Depth(n) >= maxDepth

ArgMatches(c, n) == Matches(c.find, n, c.repoPath, c.ref)
ArgCanTraverse(c, n) == CanTraverse(c.find, n, c.repoPath, c.ref, c.remote, c.branches)
ArgLoadsMore(c, n) == CanTraverseLoadsMore(c.find, n, c.repoPath, c.branches)

\* step 2: the token is checked when a node is popped and after every await
SeesCancel(c) == c.cancelled
Cancelled(c) == FindReturned(Log(c, "cancelSeen", Root), "undefined", NoNode)

RECURSIVE Advance(_, _)

\* steps 6 and 7: with the children of n materialized, page while allowed and
\* no materialized child matches, then enqueue the children
PagingDepthFirst(c, n, pg) ==
  LET kids == MaterializedChildren(n, pg)
      paged == AllowPagingOf(c.find, c.allowPaging) /\ Pageable(n)
      fresh == SelectSeq(kids, LAMBDA k : k \notin EventsOf(c, "peek"))
      c1 == IF paged THEN LogAll(c, "peek", fresh) ELSE c
  IN  IF paged /\ (\A i \in 1..Len(kids) : ~ArgMatches(c, kids[i])) /\ HasMore(n, pg)
      THEN [Log(c1, "page", n) EXCEPT !.pc = "page", !.cur = n]
      ELSE Advance([c1 EXCEPT !.queue = kids \o @], pg)
Paging(c, n, pg) ==
  LET kids == MaterializedChildren(n, pg)
      paged == AllowPagingOf(c.find, c.allowPaging) /\ Pageable(n)
      fresh == SelectSeq(kids, LAMBDA k : k \notin EventsOf(c, "peek"))
      c1 == IF paged THEN LogAll(c, "peek", fresh) ELSE c
  IN  IF paged /\ (\A i \in 1..Len(kids) : ~ArgMatches(c, kids[i])) /\ HasMore(n, pg)
      THEN [Log(c1, "page", n) EXCEPT !.pc = "page", !.cur = n]
      ELSE Advance([c1 EXCEPT !.queue = @ \o kids], pg)

\* step 5, second half: the children of n come from the index, or are fetched
MaterializeSkipsIndexed(c, n, pg) ==
  IF Loaded(pg, n) = 0
  THEN [Log(c, "children", n) EXCEPT !.pc = "children", !.cur = n]
  ELSE Advance(c, pg)
Materialize(c, n, pg) ==
  IF Loaded(pg, n) = 0
  THEN [Log(c, "children", n) EXCEPT !.pc = "children", !.cur = n]
  ELSE Paging(c, n, pg)

\* step 5, first half: canTraverse(n) has answered
Traversed(c, n, pg) ==
  IF ArgCanTraverse(c, n) THEN Materialize(c, n, pg)
  ELSE Advance(Log(c, "prune", n), pg)

\* steps 2 to 5 on the next node of the frontier
AdvancePruneFirst(c, pg) ==
  IF SeesCancel(c) THEN Cancelled(c)
  ELSE IF c.queue = <<>> THEN FindReturned(c, "undefined", NoNode)
  ELSE LET n == Head(c.queue)
           c0 == [c EXCEPT !.queue = Tail(@)]
           c1 == Log(c0, "test", n)
       IN  IF ~ArgCanTraverse(c0, n) THEN Advance(Log(c0, "prune", n), pg)
           ELSE IF ArgMatches(c1, n) THEN FindReturned(c1, "node", n)
           ELSE IF DepthPrunes(n, MaxDepthOf(c.find)) THEN Advance(c1, pg)
           ELSE IF ArgLoadsMore(c1, n)
                THEN [Log(c1, "until", n) EXCEPT !.pc = "loadUntil", !.cur = n]
           ELSE Materialize(c1, n, pg)
Advance(c, pg) ==
  IF SeesCancel(c) THEN Cancelled(c)
  ELSE IF c.queue = <<>> THEN FindReturned(c, "undefined", NoNode)
  ELSE LET n == Head(c.queue)
           c1 == Log([c EXCEPT !.queue = Tail(@)], "test", n)
       IN  IF ArgMatches(c1, n) THEN FindReturned(c1, "node", n)
           ELSE IF DepthPrunes(n, MaxDepthOf(c.find)) THEN Advance(c1, pg)
           ELSE IF ArgLoadsMore(c1, n)
                THEN [Log(c1, "until", n) EXCEPT !.pc = "loadUntil", !.cur = n]
           ELSE Traversed(c1, n, pg)

\* step 1: the frontier is seeded with the children of the root
StartSearchAtRoot(c, find, pg) ==
  LET c1 == [c EXCEPT !.find = find, !.queue = <<Root>>]
  IN  Advance(c1, pg)
StartSearch(c, find, pg) ==
  LET c1 == [c EXCEPT !.find = find, !.queue = <<>>]
  IN  IF SeesCancel(c1) THEN Cancelled(c1) ELSE Materialize(c1, Root, pg)

(***************************************************************************)
(* Actions.                                                                *)
(***************************************************************************)
Set(t, c) ==
  call' = [call EXCEPT ![t] = c] /\ UNCHANGED <<graphVars, stashVars, refreshVars>>

\* the guard lets an operation start only while no operation with its key runs
GateFree(t, tg) ==
  Gated(tg.method) =>
    \A u \in Tasks \ {t} :
      InFlight(call[u]) /\ call[u].pc # "gated" /\ Gated(call[u].method) =>
        GateKey(call[u].method, call[u].repoPath, call[u].ref)
          # GateKey(tg.method, tg.repoPath, tg.ref)

\* a caller invokes a reveal operation; maxCalls bounds the calls of a behaviour
StartBounded(t, targets, options, maxCalls) ==
  /\ ~InFlight(call[t])
  /\ ncalls < maxCalls
  /\ \E tg \in targets, o \in options :
       /\ GateFree(t, tg)
       /\ LET c == [IdleCall EXCEPT !.method = tg.method, !.repoPath = tg.repoPath,
                                    !.ref = tg.ref, !.remote = tg.remote, !.opts = o,
                                    !.allowPaging = tg.allowPaging, !.pages0 = pages]
          IN  IF tg.method = "revealCommit"
              THEN Set(t, [Log(c, "resolveLocal", Root) EXCEPT !.pc = "resolveLocal"])
              ELSE Set(t, StartSearch(c, FindOf(tg.method, tg.remote), pages))
  /\ ncalls' = ncalls + 1
  /\ UNCHANGED pages

Start(t, targets, options) == StartBounded(t, targets, options, MaxCalls)

\* an operation is invoked while an operation with its key runs: the guard
\* holds it back
WaitAtGate(t, targets, options) ==
  /\ ~InFlight(call[t])
  /\ ncalls < MaxCalls
  /\ \E tg \in targets, o \in options :
       /\ ~GateFree(t, tg)
       /\ Set(t, [IdleCall EXCEPT !.method = tg.method, !.repoPath = tg.repoPath,
                                  !.ref = tg.ref, !.remote = tg.remote, !.opts = o,
                                  !.allowPaging = tg.allowPaging, !.pages0 = pages,
                                  !.pc = "gated", !.waited = TRUE])
  /\ ncalls' = ncalls + 1
  /\ UNCHANGED pages

\* the operation that held the guard has ended: the held call shares its
\* outcome instead of running
GateOpensSharesOutcome(t) ==
  /\ call[t].pc = "gated"
  /\ GateFree(t, call[t])
  /\ \E u \in Tasks \ {t} :
       Set(t, [call[t] EXCEPT !.pc = "done", !.node = call[u].node,
                              !.result = call[u].result, !.outcome = call[u].outcome])
  /\ UNCHANGED <<pages, ncalls>>
\* the operation that held the guard has ended: the held call runs
GateOpens(t) ==
  /\ call[t].pc = "gated"
  /\ GateFree(t, call[t])
  /\ LET c == [call[t] EXCEPT !.pages0 = pages]
     IN  IF c.method = "revealCommit"
         THEN Set(t, [Log(c, "resolveLocal", Root) EXCEPT !.pc = "resolveLocal"])
         ELSE Set(t, StartSearch(c, FindOf(c.method, c.remote), pages))
  /\ UNCHANGED <<pages, ncalls>>

\* the user cancels the progress notification of a cancellable operation
Cancel(t) ==
  /\ InFlight(call[t])
  /\ call[t].pc # "gated"
  /\ Cancellable(call[t].method)
  /\ ~call[t].cancelled
  /\ Set(t, [call[t] EXCEPT !.cancelled = TRUE, !.cancelAt = Len(call[t].trace),
                                 !.cancelPc = call[t].pc])
  /\ UNCHANGED <<pages, ncalls>>

\* findCommit: the local containment query answers
ResolveLocal(t) ==
  /\ call[t].pc = "resolveLocal"
  /\ LET c == [call[t] EXCEPT
                 !.branches = GetCommitBranches(call[t].repoPath, call[t].ref, FALSE)]
     IN  IF FindCommitAfterLocal(c.branches) = "findCommitLocal"
         THEN Set(t, StartSearch(c, "findCommitLocal", pages))
         ELSE Set(t, [Log(c, "resolveRemote", Root) EXCEPT !.pc = "resolveRemote"])
  /\ UNCHANGED <<pages, ncalls>>

\* findCommit: the remote containment query answers
ResolveRemote(t) ==
  /\ call[t].pc = "resolveRemote"
  /\ LET c == [call[t] EXCEPT
                 !.branches = GetCommitBranches(call[t].repoPath, call[t].ref, TRUE)]
     IN  IF FindCommitAfterRemote(c.branches) = "undefined"
         THEN Set(t, FindReturned(c, "undefined", NoNode))
         ELSE Set(t, StartSearch(c, "findCommitRemote", pages))
  /\ UNCHANGED <<pages, ncalls>>

\* the awaited children() of call[t].cur resolves
ChildrenLoaded(t) ==
  /\ call[t].pc = "children"
  /\ pages' = SetLoaded(pages, call[t].cur, Max(Loaded(pages, call[t].cur), 1))
  /\ IF SeesCancel(call[t]) THEN Set(t, Cancelled(call[t]))
     ELSE Set(t, Paging(call[t], call[t].cur, pages'))
  /\ UNCHANGED ncalls

\* the awaited load-more of call[t].cur resolves
PageLoaded(t) ==
  /\ call[t].pc = "page"
  /\ pages' = SetLoaded(pages, call[t].cur, PagesAfterLoadMore(call[t].cur, pages))
  /\ IF SeesCancel(call[t]) THEN Set(t, Cancelled(call[t]))
     ELSE Set(t, Paging(call[t], call[t].cur, pages'))
  /\ UNCHANGED ncalls

\* the loadMore({until: commit.ref}) awaited by canTraverse resolves
LoadedUntil(t) ==
  /\ call[t].pc = "loadUntil"
  /\ pages' = SetLoaded(pages, call[t].cur,
                       PagesAfterLoadUntil(call[t].cur, call[t].ref, pages))
  /\ IF SeesCancel(call[t]) THEN Set(t, Cancelled(call[t]))
     ELSE Set(t, Traversed(call[t], call[t].cur, pages'))
  /\ UNCHANGED ncalls

\* the data provider fails in the awaited query or fetch
ProviderFails(t) ==
  /\ call[t].pc \in {"resolveLocal", "resolveRemote", "children", "page", "loadUntil"}
  /\ Set(t, FindReturned(Log(call[t], "failed", call[t].cur), "error", NoNode))
  /\ UNCHANGED <<pages, ncalls>>

\* the awaited expand, select or focus resolves: the next one is issued
UiResolves(t) ==
  /\ call[t].pc = "ui"
  /\ LET c == call[t]
         done == [c EXCEPT !.ui = Append(@, [ev |-> "ok", op |-> c.steps[c.step].op,
                                            n |-> c.steps[c.step].n])]
     IN  IF c.step < Len(c.steps)
         THEN Set(t, [done EXCEPT !.step = @ + 1,
                         !.ui = Append(@, [ev |-> "issue", op |-> c.steps[c.step + 1].op,
                                           n |-> c.steps[c.step + 1].n])])
         ELSE Set(t, [done EXCEPT !.pc = "done", !.outcome = OutcomeOf(c)])
  /\ UNCHANGED <<pages, ncalls>>

\* the awaited expand, select or focus fails: logged, and the reveal stops
UiFails(t) ==
  /\ call[t].pc = "ui"
  /\ Set(t, UiFailed(call[t]))
  /\ UNCHANGED <<pages, ncalls>>

Step(t, targets, options) ==
  \/ Start(t, targets, options)
  \/ Cancel(t)
  \/ ResolveLocal(t)
  \/ ResolveRemote(t)
  \/ ChildrenLoaded(t)
  \/ PageLoaded(t)
  \/ LoadedUntil(t)
  \/ ProviderFails(t)
  \/ UiResolves(t)
  \/ UiFails(t)

\* one caller
Next == Step(1, Targets, Options)
Spec == Init /\ [][Next]_vars

\* two callers on the same view
NextGate ==
  \E t \in Tasks :
    \/ Step(t, GateTargets, GateOptions)
    \/ WaitAtGate(t, GateTargets, GateOptions)
    \/ GateOpens(t)
SpecGate == Init /\ [][NextGate]_vars

\* two callers that search a commit with findNode directly, with and without
\* allowPaging, one search after the other
MaxDirectCalls == 3
DirectTargets == {tg \in Targets : tg.method = "findNode" /\ tg.ref = <<"b1">>}
DirectOptions == {o \in Options : o.select}
StartDirect(t) ==
  /\ \A u \in Tasks : ~InFlight(call[u])
  /\ StartBounded(t, DirectTargets, DirectOptions, MaxDirectCalls)
NextDirect ==
  \E t \in Tasks :
    \/ StartDirect(t)
    \/ ChildrenLoaded(t)
    \/ PageLoaded(t)
    \/ ProviderFails(t)
SpecDirect == Init /\ [][NextDirect]_vars

(***************************************************************************)
(* GraphWebview (src/unnamed/part_000): the commit-graph panel, which      *)
(* pages a linear commit log.  An operation runs from one await to the     *)
(* next; gjob[j].pc is the await job j is suspended at.                    *)
(***************************************************************************)
\* limit ?? pageLimit: a limit is <<>> (not given) or <<k>>
GraphLimits == {<<>>, <<1>>, <<2>>}
EffectiveLimit(limit) == IF limit = <<>> THEN GraphPageLimit ELSE limit[1]
\* log.more !== undefined: the log has a continuation
HasMoreLog(log) == log.count < LogLength
\* log.more(limit): the log extended by the next limit commits
LogMore(log, limit) == [log EXCEPT !.count = Min(@ + limit, LogLength)]
\* container.git.getLog(repository.uri, {limit: pageLimit ?? defaultLimit})
GetLog(repoPath) ==
  [repoPath |-> repoPath, count |-> Min(GraphPageLimit, LogLength), ver |-> repoVer[repoPath]]

JobFree(j) == gjob[j].pc \in {"idle", "done"}
JobInFlight(j) == ~JobFree(j)
\* the notification that ends an operation: sent is the log it carries
Notified(job, sent) == [job EXCEPT !.pc = "done", !.sent = sent, !.notified = @ + 1]
\* getCommits returned sent: notifyDidChangeCommits notifies; getState awaits
\* the other getters of its Promise.all first
GotCommits(job, sent) ==
  IF job.kind = "moreCommits" THEN Notified(job, sent)
  ELSE [job EXCEPT !.pc = "all", !.sent = sent]
\* getCommits up to its first await, with selection sel and cached log log
GetCommits(job, sel, log) ==
  IF sel = Undefined THEN GotCommits(job, UndefinedLog)
  ELSE IF log = UndefinedLog THEN [job EXCEPT !.pc = "getLog", !.repo = sel]
  ELSE GotCommits(job, log)
\* getState up to its first await
GetState(job, sel, log) ==
  IF sel = Undefined THEN [job EXCEPT !.pc = "pick"] ELSE GetCommits(job, sel, log)
NewJob(kind, limit) == [IdleJob EXCEPT !.kind = kind, !.limit = limit]
CanStart(j) == JobFree(j) /\ gops < MaxGraphOps

\* includeBootstrap: the panel is shown and asks for its state
IncludeBootstrap(j) ==
  /\ CanStart(j)
  /\ gjob' = [gjob EXCEPT ![j] = GetState(NewJob("getState", <<>>), selectedRepository, currentLog)]
  /\ gops' = gops + 1
  /\ UNCHANGED <<selectedRepository, currentLog, repoDisposable, repoVer>>
  /\ UNCHANGED <<viewVars, stashVars, refreshVars>>

\* moreCommits(limit), up to the await of currentLog.more
MoreCommits(j, limit) ==
  /\ CanStart(j)
  /\ IF currentLog # UndefinedLog /\ HasMoreLog(currentLog)
     THEN gjob' = [gjob EXCEPT ![j] = [NewJob("moreCommits", limit) EXCEPT
                                        !.pc = "more", !.log = currentLog]]
     ELSE gjob' = [gjob EXCEPT ![j] = GetCommits(NewJob("moreCommits", limit),
                                                selectedRepository, currentLog)]
  /\ gops' = gops + 1
  /\ UNCHANGED <<selectedRepository, currentLog, repoDisposable, repoVer>>
  /\ UNCHANGED <<viewVars, stashVars, refreshVars>>

\* moreCommits: the continuation answers nextLog, stored whatever it is
MoreResolvedStoresUndefined(j, defined) ==
  /\ gjob[j].pc = "more"
  /\ currentLog' = IF defined THEN LogMore(gjob[j].log, EffectiveLimit(gjob[j].limit))
                   ELSE UndefinedLog
  /\ gjob' = [gjob EXCEPT ![j] = GetCommits(gjob[j], selectedRepository, currentLog')]
  /\ UNCHANGED <<selectedRepository, repoDisposable, gops, repoVer>>
  /\ UNCHANGED <<viewVars, stashVars, refreshVars>>
\* moreCommits: the continuation answers nextLog (defined or not)
MoreResolved(j, defined) ==
  /\ gjob[j].pc = "more"
  /\ currentLog' = IF defined THEN LogMore(gjob[j].log, EffectiveLimit(gjob[j].limit))
                   ELSE currentLog
  /\ gjob' = [gjob EXCEPT ![j] = GetCommits(gjob[j], selectedRepository, currentLog')]
  /\ UNCHANGED <<selectedRepository, repoDisposable, gops, repoVer>>
  /\ UNCHANGED <<viewVars, stashVars, refreshVars>>

\* changeRepository(path) that keeps the cached log
ChangeRepositoryKeepsLog(j, path) ==
  /\ CanStart(j)
  /\ IF selectedRepository # path
     THEN /\ selectedRepository' = IF path # "" /\ path \in GraphRepos THEN path ELSE Undefined
          /\ currentLog' = currentLog
     ELSE UNCHANGED <<selectedRepository, currentLog>>
  /\ gjob' = [gjob EXCEPT ![j] = GetState([NewJob("changeRepository", <<>>) EXCEPT
                                            !.path = path, !.same = (selectedRepository = path)],
                                          selectedRepository', currentLog')]
  /\ gops' = gops + 1
  /\ UNCHANGED <<repoDisposable, repoVer>>
  /\ UNCHANGED <<viewVars, stashVars, refreshVars>>
\* changeRepository(path)
ChangeRepository(j, path) ==
  /\ CanStart(j)
  /\ IF selectedRepository # path
     THEN /\ selectedRepository' = IF path # "" /\ path \in GraphRepos THEN path ELSE Undefined
          /\ currentLog' = UndefinedLog
     ELSE UNCHANGED <<selectedRepository, currentLog>>
  /\ gjob' = [gjob EXCEPT ![j] = GetState([NewJob("changeRepository", <<>>) EXCEPT
                                            !.path = path, !.same = (selectedRepository = path)],
                                          selectedRepository', currentLog')]
  /\ gops' = gops + 1
  /\ UNCHANGED <<repoDisposable, repoVer>>
  /\ UNCHANGED <<viewVars, stashVars, refreshVars>>

\* repository r changes; onRepositoryChanged runs when the panel subscribes to r
RepositoryChanged(j, r) ==
  /\ repoVer[r] < MaxRepoChanges
  /\ repoVer' = [repoVer EXCEPT ![r] = @ + 1]
  /\ IF repoDisposable = r
     THEN /\ CanStart(j)
          /\ currentLog' = UndefinedLog
          /\ gjob' = [gjob EXCEPT ![j] = GetState(NewJob("onRepositoryChanged", <<>>),
                                                  selectedRepository, currentLog')]
          /\ gops' = gops + 1
     ELSE UNCHANGED <<currentLog, gjob, gops>>
  /\ UNCHANGED <<selectedRepository, repoDisposable>>
  /\ UNCHANGED <<viewVars, stashVars, refreshVars>>

\* getState: pickRepository answers idealRepo (Undefined: the picker was dismissed)
PickResolved(j, idealRepo) ==
  /\ gjob[j].pc = "pick"
  /\ selectedRepository' = idealRepo
  /\ repoDisposable' = idealRepo
  /\ gjob' = [gjob EXCEPT ![j] = GetCommits(gjob[j], idealRepo, currentLog)]
  /\ UNCHANGED <<currentLog, gops, repoVer>>
  /\ UNCHANGED <<viewVars, stashVars, refreshVars>>

\* getCommits: getLog answers (defined: a log with commits)
GetLogResolved(j, defined) ==
  /\ gjob[j].pc = "getLog"
  /\ IF defined
     THEN /\ currentLog' = GetLog(gjob[j].repo)
          /\ gjob' = [gjob EXCEPT ![j] = GotCommits(gjob[j], currentLog')]
     ELSE /\ UNCHANGED currentLog
          /\ gjob' = [gjob EXCEPT ![j] = GotCommits(gjob[j], UndefinedLog)]
  /\ UNCHANGED <<selectedRepository, repoDisposable, gops, repoVer>>
  /\ UNCHANGED <<viewVars, stashVars, refreshVars>>

\* getState: the Promise.all of the getters resolves and the state is sent
AllResolved(j) ==
  /\ gjob[j].pc = "all"
  /\ gjob' = [gjob EXCEPT ![j] = Notified(gjob[j], gjob[j].sent)]
  /\ UNCHANGED <<selectedRepository, currentLog, repoDisposable, gops, repoVer>>
  /\ UNCHANGED <<viewVars, stashVars, refreshVars>>

GraphStep(j) ==
  \/ IncludeBootstrap(j)
  \/ \E limit \in GraphLimits : MoreCommits(j, limit)
  \/ \E defined \in BOOLEAN : MoreResolved(j, defined)
  \/ \E path \in GraphRepos \cup {"", "r9"} : ChangeRepository(j, path)
  \/ \E r \in GraphRepos : RepositoryChanged(j, r)
  \/ \E idealRepo \in GraphRepos \cup {Undefined} : PickResolved(j, idealRepo)
  \/ \E defined \in BOOLEAN : GetLogResolved(j, defined)
  \/ AllResolved(j)

NextGraph == \E j \in GraphJobs : GraphStep(j)
SpecGraph == Init /\ [][NextGraph]_vars

(***************************************************************************)
(* getState (src/unnamed/part_000, lines 266-276): the commits of the      *)
(* state are the commits of the log followed by the stash commits that     *)
(* filterStashCommits (323-336) keeps.                                     *)
(***************************************************************************)
\* stash commits in a stash list
MaxStashCommits == 3
\* a commit of the log of r1, the last commit of that log, and a commit that
\* no log holds
FirstCommit == <<"r1", 1>>
LastCommit == <<"r1", LogLength>>
ForeignCommit == <<"r1", 0>>
\* the parents a stash commit can have: undefined, none, or a list
StashKinds == {"none", "empty", "first", "last", "foreignFirst", "firstForeign"}
ParentsOf(kind) ==
  CASE kind = "none" -> None
    [] kind = "empty" -> Some(<<>>)
    [] kind = "first" -> Some(<<FirstCommit>>)
    [] kind = "last" -> Some(<<LastCommit>>)
    [] kind = "foreignFirst" -> Some(<<ForeignCommit, FirstCommit>>)
    [] OTHER -> Some(<<FirstCommit, ForeignCommit>>)
\* a GitStashCommit
StashCommit(kind) == [sha |-> <<"stash", kind>>, parents |-> ParentsOf(kind)]
\* the stash lists getStashCommits can answer: undefined, or the commits of a
\* stash, each once
StashLists ==
  LET seqs == UNION {[1..n -> StashKinds] : n \in 0..MaxStashCommits}
      once(q) == \A i, k \in 1..Len(q) : q[i] = q[k] => i = k
  IN  {[i \in 1..Len(q) |-> StashCommit(q[i])] : q \in {r \in seqs : once(r)}}
StashInputs == {None} \cup {Some(l) : l \in StashLists}
\* the logs getCommits can answer: undefined, or a log with some commits
LogInputs ==
  {UndefinedLog} \cup {[repoPath |-> "r1", count |-> k, ver |-> 0] : k \in 0..LogLength}

\* stashCommit.parents?.length
ParentsLength(commit) == IF commit.parents = None THEN 0 ELSE Len(commit.parents[1])
\* log.commits.get(sha)
LogGet(log, sha) == IF sha \in LogCommits(log) THEN Some(sha) ELSE None

\* filterStashCommits that looks for any parent in the log
filterStashCommitsAnyParent(stashes, log) ==
  IF stashes = None \/ log = UndefinedLog THEN <<>>
  ELSE SelectSeq(stashes[1],
         LAMBDA stashCommit :
           IF ParentsLength(stashCommit) = 0 THEN TRUE
           ELSE \E i \in 1..ParentsLength(stashCommit) :
                  LogGet(log, stashCommit.parents[1][i]) # None)
\* filterStashCommits(stashCommits, log)
filterStashCommits(stashes, log) ==
  IF stashes = None \/ log = UndefinedLog THEN <<>>
  ELSE SelectSeq(stashes[1],
         LAMBDA stashCommit :
           IF ParentsLength(stashCommit) = 0 THEN TRUE
           ELSE LogGet(log, stashCommit.parents[1][1]) # None)

\* commitsAndLog?.commits ?? []: the commits of the log, in its order
LogCommitList(log) ==
  [i \in 1..log.count |->
     [sha |-> <<log.repoPath, i>>,
      parents |-> IF i < LogLength THEN Some(<< <<log.repoPath, i + 1>> >>) ELSE Some(<<>>)]]

\* getState, lines 274-276, with the answers of getCommits and getStashCommits
GetStateCommits ==
  /\ filteredStashCommits = None
  /\ filteredStashCommits' = Some(filterStashCommits(stashCommits, stashLog))
  /\ stateCommits' = Some(LogCommitList(stashLog) \o filteredStashCommits'[1])
  /\ UNCHANGED <<stashCommits, stashLog>>
  /\ UNCHANGED <<viewVars, graphVars, refreshVars>>

InitStash ==
  /\ call = [t \in Tasks |-> IdleCall]
  /\ pages = NoPages
  /\ ncalls = 0
  /\ selectedRepository = Undefined
  /\ currentLog = UndefinedLog
  /\ repoDisposable = Undefined
  /\ gjob = [j \in GraphJobs |-> IdleJob]
  /\ gops = 0
  /\ repoVer = [r \in GraphRepos |-> 0]
  /\ stashCommits \in StashInputs
  /\ stashLog \in LogInputs
  /\ filteredStashCommits = None
  /\ stateCommits = None
  /\ configAutoRefresh = TRUE
  /\ storedAutoRefresh = None
  /\ contextAutoRefresh = None
  /\ fired = 0
  /\ rjob = [j \in RefreshJobs |-> IdleRefresh]
  /\ rops = 0
NextStash == GetStateCommits
SpecStash == InitStash /\ [][NextStash]_vars

(***************************************************************************)
(* RepositoriesView.setAutoRefresh (src/src/views/repositoriesView.ts,     *)
(* lines 865-883), its callers (115-124, 283-289) and the autoRefresh      *)
(* getter (291-296).  A call with a flag to store is suspended at the      *)
(* await of storeWorkspace; every other call runs to its end at once.      *)
(***************************************************************************)
\* calls of setAutoRefresh in one behaviour
MaxRefreshOps == 3
\* storage.getWorkspace<boolean>(ViewsRepositoriesAutoRefresh, true)
GetWorkspaceAutoRefresh(stored) == IF stored = None THEN TRUE ELSE stored[1]
\* get autoRefresh()
AutoRefresh(config, stored) == config /\ GetWorkspaceAutoRefresh(stored)
\* enabled && workspaceEnabled, the value given to setContext
ContextValue(enabled, workspaceEnabled) ==
  IF enabled THEN workspaceEnabled[1] ELSE FALSE

RefreshFree(j) == rjob[j].pc \in {"idle", "done"}
CanRefresh(j) == RefreshFree(j) /\ rops < MaxRefreshOps

\* setContext(...) and this._onDidChangeAutoRefresh.fire(), lines 880-882
RefreshEnds(j, job, workspaceEnabled) ==
  /\ contextAutoRefresh' = Some(ContextValue(job.enabled, workspaceEnabled))
  /\ fired' = fired + 1
  /\ rjob' = [rjob EXCEPT ![j] = [job EXCEPT !.pc = "done", !.fired = @ + 1]]

\* setAutoRefresh(enabled, workspaceEnabled), up to the await of storeWorkspace
SetAutoRefresh(j, kind, enabled, workspaceEnabled) ==
  LET job == [IdleRefresh EXCEPT !.op = rops + 1, !.kind = kind, !.enabled = enabled,
                                 !.workspaceEnabled = workspaceEnabled]
  IN  /\ CanRefresh(j)
      /\ rops' = rops + 1
      /\ IF enabled /\ workspaceEnabled # None
         THEN /\ rjob' = [rjob EXCEPT ![j] = [job EXCEPT !.pc = "store"]]
              /\ UNCHANGED <<storedAutoRefresh, contextAutoRefresh, fired>>
         ELSE /\ RefreshEnds(j, job, IF enabled
                                     THEN Some(GetWorkspaceAutoRefresh(storedAutoRefresh))
                                     ELSE workspaceEnabled)
              /\ UNCHANGED storedAutoRefresh

\* the setAutoRefreshToOn command
SetAutoRefreshToOn(j) ==
  /\ SetAutoRefresh(j, "setAutoRefreshToOn", configAutoRefresh, Some(TRUE))
  /\ UNCHANGED configAutoRefresh
  /\ UNCHANGED <<viewVars, graphVars, stashVars>>

\* the setAutoRefreshToOff command
SetAutoRefreshToOff(j) ==
  /\ SetAutoRefresh(j, "setAutoRefreshToOff", configAutoRefresh, Some(FALSE))
  /\ UNCHANGED configAutoRefresh
  /\ UNCHANGED <<viewVars, graphVars, stashVars>>

\* the autoRefresh setting changes to value: onConfigurationChanged
ConfigurationChanged(j, value) ==
  /\ value # configAutoRefresh
  /\ configAutoRefresh' = value
  /\ SetAutoRefresh(j, "onConfigurationChanged", value, None)
  /\ UNCHANGED <<viewVars, graphVars, stashVars>>

\* the awaited storeWorkspace of call j resolves: the flag is in storage
StoreWorkspaceResolved(j) ==
  /\ rjob[j].pc = "store"
  /\ storedAutoRefresh' = rjob[j].workspaceEnabled
  /\ RefreshEnds(j, rjob[j], rjob[j].workspaceEnabled)
  /\ UNCHANGED <<configAutoRefresh, rops>>
  /\ UNCHANGED <<viewVars, graphVars, stashVars>>

InitRefresh ==
  /\ call = [t \in Tasks |-> IdleCall]
  /\ pages = NoPages
  /\ ncalls = 0
  /\ selectedRepository = Undefined
  /\ currentLog = UndefinedLog
  /\ repoDisposable = Undefined
  /\ gjob = [j \in GraphJobs |-> IdleJob]
  /\ gops = 0
  /\ repoVer = [r \in GraphRepos |-> 0]
  /\ stashCommits = None
  /\ stashLog = UndefinedLog
  /\ filteredStashCommits = None
  /\ stateCommits = None
  /\ configAutoRefresh \in BOOLEAN
  /\ storedAutoRefresh \in {None, Some(TRUE), Some(FALSE)}
  /\ contextAutoRefresh = None
  /\ fired = 0
  /\ rjob = [j \in RefreshJobs |-> IdleRefresh]
  /\ rops = 0
NextRefresh ==
  \E j \in RefreshJobs :
    \/ SetAutoRefreshToOn(j)
    \/ SetAutoRefreshToOff(j)
    \/ \E value \in BOOLEAN : ConfigurationChanged(j, value)
    \/ StoreWorkspaceResolved(j)
SpecRefresh == InitRefresh /\ [][NextRefresh]_vars

(***************************************************************************)
(* Properties.                                                             *)
(***************************************************************************)
Ev(c, i) == c.trace[i]
Idx(c) == 1..Len(c.trace)
\* the events that visit a node: its test, and the requests of its children
Visits == {"test", "peek", "children", "page", "until"}
Requests == {"children", "page", "until"}
\* the nodes call c applied the matcher to
Tested(c) == EventsOf(c, "test") \cup EventsOf(c, "peek")

\* C1: in every search, for every node n for which canTraverse(n) was false,
\* no descendant of n is tested against the matcher, and no children or
\* load-more request is made for n or for a descendant of n.
C1_PruningCorrectness ==
  \A t \in Tasks : \A i \in Idx(call[t]) :
    Ev(call[t], i).ev = "prune" =>
      \A j \in Idx(call[t]) :
        /\ Ev(call[t], j).ev \in Visits =>
             ~IsDescendant(Ev(call[t], j).n, Ev(call[t], i).n)
        /\ Ev(call[t], j).ev \in Requests => Ev(call[t], j).n # Ev(call[t], i).n

\* a commit search has ended with its node after it pruned a BranchNode of the
\* target repository that has commits (main), and other nodes
C1_Witness ==
  /\ call[1].pc = "done"
  /\ call[1].method = "revealCommit"
  /\ call[1].outcome = "node"
  /\ <<"r1", "branches", "main">> \in EventsOf(call[1], "prune")
  /\ <<"r2">> \in EventsOf(call[1], "prune")
  /\ <<"r1", "branches", "feature", "x">> \in EventsOf(call[1], "until")

\* C2: in a search with maxDepth d no node of depth greater than d is tested,
\* and no children or load-more request is made for a node of depth >= d; the
\* frontier holds no node deeper than d.
C2_DepthBound ==
  \A t \in Tasks :
    call[t].find \in Finds =>
      /\ \A i \in Idx(call[t]) :
           /\ Ev(call[t], i).ev \in {"test", "peek"} =>
                Depth(Ev(call[t], i).n) <= MaxDepthOf(call[t].find)
           /\ Ev(call[t], i).ev \in Requests => Depth(Ev(call[t], i).n) < MaxDepthOf(call[t].find)
      /\ \A i \in 1..Len(call[t].queue) : Depth(call[t].queue[i]) <= MaxDepthOf(call[t].find)

\* findWorktree (maxDepth 2) has tested the WorktreesNode of its repository, at
\* depth 2, which canTraverse admits, and ended without fetching its children
C2_Witness ==
  /\ call[1].pc = "done"
  /\ call[1].find = "findWorktree"
  /\ ~call[1].cancelled
  /\ WorktreesNodeId("r1") \in EventsOf(call[1], "test")
  /\ FindWorktreeCanTraverse(WorktreesNodeId("r1"), call[1].repoPath)
  /\ WorktreesNodeId("r1") \notin EventsOf(call[1], "children")
  /\ call[1].result = "undefined"

SearchPcs == {"resolveLocal", "resolveRemote", "children", "page", "loadUntil"}
CancelledInSearch(c) == c.cancelled /\ c.cancelPc \in SearchPcs

\* C3: once the token is cancelled during the find step of an operation, the
\* operation visits no node and starts no further query or fetch (it ends at
\* the boundary of the suspension it was in), it issues no UI operation, and
\* it ends with undefined.  The failure of the request that was pending when
\* the token was cancelled is not held against the operation.
C3_CancellationSafety ==
  \A t \in Tasks :
    CancelledInSearch(call[t]) =>
      /\ \A i \in Idx(call[t]) :
           i > call[t].cancelAt => Ev(call[t], i).ev \in {"cancelSeen", "failed"}
      /\ call[t].pc # "ui"
      /\ call[t].pc = "done" /\ call[t].result # "error" => call[t].outcome = "undefined"

\* the same, but for the remote containment query of findCommit
C3_ExceptRemoteQuery ==
  \A t \in Tasks :
    CancelledInSearch(call[t]) =>
      /\ \A i \in Idx(call[t]) :
           i > call[t].cancelAt =>
             \/ Ev(call[t], i).ev \in {"cancelSeen", "failed"}
             \/ Ev(call[t], i).ev = "resolveRemote" /\ call[t].cancelPc = "resolveLocal"
      /\ call[t].pc # "ui"
      /\ call[t].pc = "done" /\ call[t].result # "error" => call[t].outcome = "undefined"

UiLog(c, i) == c.ui[i]
UiIdx(c) == 1..Len(c.ui)
UiEv(e, op, n) == [ev |-> e, op |-> op, n |-> n]

\* C4: the expansions of a reveal are issued one at a time and root to leaf:
\* a UI operation is issued only when the one before it has resolved, and the
\* expansion of a node is issued only after the expansion of its parent resolved.
C4_AncestorBeforeChild ==
  \A t \in Tasks : \A j \in UiIdx(call[t]) :
    UiLog(call[t], j).ev = "issue" =>
      /\ j > 1 => UiLog(call[t], j - 1).ev = "ok"
      /\ UiLog(call[t], j).op = "expand" /\ Len(UiLog(call[t], j).n) > 1 =>
           \E i \in 1..(j - 1) :
             UiLog(call[t], i) = UiEv("ok", "expand", Parent(UiLog(call[t], j).n))

\* a reveal of a node at depth 4 has expanded its three ancestors and the node
C4_Witness ==
  /\ call[1].pc = "done"
  /\ call[1].outcome = "node"
  /\ Len(call[1].node) = 4
  /\ \A d \in 1..4 : \E i \in UiIdx(call[1]) :
       UiLog(call[1], i) = UiEv("ok", "expand", SubSeq(call[1].node, 1, d))

\* C5: at most one reveal walk (the expand, select and focus steps of a reveal
\* operation) is in flight on the view at any time, whichever reveal
\* operations the callers invoke.
C5_RevealSerialization ==
  Cardinality({t \in Tasks : call[t].pc = "ui"}) <= 1

\* C5, amended: two reveal operations in flight at the same time are never
\* calls of the same reveal operation, so the walks of one operation never
\* interleave.
C5_SameOperationSerialized ==
  \A t, u \in Tasks :
    t # u /\ InFlight(call[t]) /\ InFlight(call[u])
          /\ call[t].pc # "gated" /\ call[u].pc # "gated"
          /\ call[t].method \in Methods /\ call[u].method \in Methods
      => call[t].method # call[u].method

\* a second revealBranch walks after the first revealBranch has ended its walk
C5_Witness ==
  /\ call[1].pc = "done" /\ call[1].method = "revealBranch" /\ call[1].ui # <<>>
  /\ call[2].pc = "ui" /\ call[2].method = "revealBranch"
  /\ call[2].ref # call[1].ref

\* C6: when the find step of an operation yields no node (the search is
\* exhausted, pruned out or cancelled), the operation has ended with undefined
\* and has issued no UI operation; no UI operation is ever issued on undefined.
C6_NotFoundIsNoOp ==
  \A t \in Tasks :
    /\ call[t].result = "undefined" =>
         call[t].pc = "done" /\ call[t].outcome = "undefined" /\ call[t].ui = <<>>
    /\ \A i \in UiIdx(call[t]) : UiLog(call[t], i).n # NoNode

\* revealStash has ended for a stash that does not exist, after a search that
\* pruned nodes and was not cancelled
C6_Witness ==
  /\ call[1].method = "revealStash"
  /\ call[1].result = "undefined"
  /\ ~call[1].cancelled
  /\ StashesNodeId("r1") \in EventsOf(call[1], "children")
  /\ EventsOf(call[1], "prune") # {}

\* C7: when the data provider fails in a containment query, a children fetch
\* or a load-more, the operation ends at once with an error: it starts nothing
\* afterwards, issues no UI operation and does not end with undefined; and an
\* operation ends with an error only after a provider failure.
C7_ProviderFailuresPropagate ==
  \A t \in Tasks :
    /\ \A i \in Idx(call[t]) :
         Ev(call[t], i).ev = "failed" =>
           /\ i = Len(call[t].trace)
           /\ call[t].pc = "done"
           /\ call[t].outcome = "error"
           /\ call[t].ui = <<>>
    /\ call[t].outcome = "error" => "failed" \in {Ev(call[t], i).ev : i \in Idx(call[t])}

\* revealCommit has ended with an error after the provider failed in a
\* load-more of the remote branch search, which pruned nodes before
C7_Witness ==
  /\ call[1].method = "revealCommit"
  /\ call[1].find = "findCommitRemote"
  /\ call[1].outcome = "error"
  /\ EventsOf(call[1], "page") # {}
  /\ EventsOf(call[1], "prune") # {}
  /\ Ev(call[1], Len(call[1].trace)) = [ev |-> "failed", n |-> <<"r1", "remotes", "origin", "feature">>]

C9_SelectFocusOnTargetOnly ==
  \A t \in Tasks : \A i \in UiIdx(call[t]) :
    UiLog(call[t], i).op \in {"select", "focus"} =>
      /\ UiLog(call[t], i).n = call[t].node
      /\ call[t].node # NoNode
      /\ \A d \in 1..(Len(call[t].node) - 1) :
           \E j \in 1..(i - 1) :
             UiLog(call[t], j) = UiEv("ok", "expand", SubSeq(call[t].node, 1, d))

\* a node at depth 4 was selected and focused after its three ancestors expanded
C9_Witness ==
  /\ call[1].pc = "done"
  /\ Len(call[1].node) = 4
  /\ \E i, j \in UiIdx(call[1]) :
       /\ UiLog(call[1], i) = UiEv("ok", "select", call[1].node)
       /\ UiLog(call[1], j) = UiEv("ok", "focus", call[1].node)

\* the number of events e of call c on node n
CountOf(c, e, n) == Cardinality({i \in Idx(c) : Ev(c, i) = [ev |-> e, n |-> n]})
\* the branch nodes whose history holds the commit that call c searches for
BranchesHolding(c) ==
  {b \in Inner : Kind(b) = "BranchNode" /\ PageOfRef(b, c.ref) > 0}
\* call c has completed, uncancelled and without failure, a search for a
\* commit that only branch b holds, on page 3 of a history of which at most
\* page 1 was loaded when the search began
OnPageThree(c, b) ==
  /\ c.find \in {"findCommitLocal", "findCommitRemote", "findNode"}
  /\ c.result \in {"node", "undefined"}
  /\ ~c.cancelled
  /\ BranchesHolding(c) = {b}
  /\ PageOfRef(b, c.ref) = 3
  /\ Loaded(c.pages0, b) <= 1

\* C10: when the only matching commit lies on page 3 of a branch's history, a
\* search with allowPaging issues exactly two load-more requests on the branch
\* and returns the match; without allowPaging it issues none and returns
\* not-found.
C10_PagingScenario ==
  \A t \in Tasks : \A b \in Inner :
    OnPageThree(call[t], b) =>
      IF AllowPagingOf(call[t].find, call[t].allowPaging)
      THEN /\ CountOf(call[t], "page", b) + CountOf(call[t], "until", b) = 2
           /\ call[t].result = "node"
      ELSE /\ CountOf(call[t], "page", b) + CountOf(call[t], "until", b) = 0
           /\ call[t].result = "undefined"

\* C10, amended: in that scenario findCommit's local search issues one
\* loadMore({until}) on the branch and no page-by-page load-more, and returns
\* the match; findCommit's remote search, and a search given allowPaging,
\* issue exactly two page-by-page load-more requests and return the match; a
\* search not given allowPaging issues no load-more and returns not-found.
C10_PagingScenarioAmended ==
  \A t \in Tasks : \A b \in Inner :
    OnPageThree(call[t], b) =>
      CASE call[t].find = "findCommitLocal" ->
             /\ CountOf(call[t], "until", b) = 1
             /\ CountOf(call[t], "page", b) = 0
             /\ call[t].result = "node"
        [] call[t].find = "findCommitRemote" \/ call[t].allowPaging ->
             /\ CountOf(call[t], "page", b) = 2
             /\ CountOf(call[t], "until", b) = 0
             /\ call[t].result = "node"
        [] OTHER ->
             /\ CountOf(call[t], "page", b) = 0
             /\ CountOf(call[t], "until", b) = 0
             /\ call[t].result = "undefined"

\* findCommit's remote search has found a commit on page 3 of the only remote
\* branch that holds it, after two load-more requests
C10_Witness ==
  /\ OnPageThree(call[1], <<"r1", "remotes", "origin", "feature">>)
  /\ call[1].find = "findCommitRemote"
  /\ call[1].result = "node"
  /\ CountOf(call[1], "page", <<"r1", "remotes", "origin", "feature">>) = 2

\* the children of n materialized under pg, as a set
MaterializedSet(n, pg) == Range(MaterializedChildren(n, pg))

\* job j's awaited load-more (currentLog.more) answers in this step
LoadMoreStep(j) == gjob[j].pc = "more" /\ gjob'[j].pc # "more"

\* C11: no step removes a materialized child of a tree node, and the step in
\* which a load-more of the graph answers removes no commit of the log the
\* graph had just before it.
C11_PaginationMonotonicity ==
  [][ /\ \A n \in Nodes : MaterializedSet(n, pages) \subseteq MaterializedSet(n, pages')
      /\ (\E j \in GraphJobs : LoadMoreStep(j))
           => LogCommits(currentLog) \subseteq LogCommits(currentLog')
    ]_vars

\* C11, the tree alone: no step removes a materialized child of a node.
C11_TreeMonotonic ==
  [][ \A n \in Nodes : MaterializedSet(n, pages) \subseteq MaterializedSet(n, pages') ]_vars

\* C11, the graph when nothing else stored a log meanwhile: if currentLog is
\* still the log the load-more was requested on, the step in which the
\* load-more answers removes no commit.
C11_GraphMonotonicAlone ==
  [][ \A j \in GraphJobs :
        LoadMoreStep(j) /\ gjob[j].log = currentLog
          => LogCommits(currentLog) \subseteq LogCommits(currentLog')
    ]_vars

\* the nodes of which call c requested children, a page or a load-until
Requested(c) == UNION {EventsOf(c, e) : e \in Requests}
\* the Remote node a remote branch search of call c is scoped to
RemoteNodeOf(c) == <<c.repoPath, "remotes", GetRemote(c.ref)>>

\* C12: a findBranch search for a remote branch descends, below the owning
\* repository, only into the Remotes section and the Remote node named by the
\* branch's remote prefix: every node whose children it requests is the root,
\* the repository node, its Remotes node, or lies in that Remote node's subtree.
C12_RemoteBranchScoping ==
  \A t \in Tasks :
    call[t].find = "findBranchRemote" =>
      \A n \in Requested(call[t]) :
        \/ n \in {Root, RepositoryNodeId(call[t].repoPath), <<call[t].repoPath, "remotes">>}
        \/ StartsWith(n, RemoteNodeOf(call[t]))

\* C12, amended: canTraverse of a remote branch search is false for every
\* Remote node but the one named by the branch's remote prefix, and nothing
\* below another Remote node is requested or tested; besides the root, the
\* repository node, its Remotes node and that Remote node, the search descends
\* only into the Branches section and the branch folders of the repository.
C12_RemoteBranchScopingAmended ==
  \A t \in Tasks :
    call[t].find = "findBranchRemote" =>
      /\ \A n \in Nodes :
           Kind(n) = "RemoteNode" /\ n # RemoteNodeOf(call[t])
             => ~ArgCanTraverse(call[t], n)
      /\ \A n \in Requested(call[t]) :
           \/ n = Root
           \/ /\ StartsWith(n, RepositoryNodeId(call[t].repoPath))
              /\ \/ Kind(n) \in {"RepositoryNode", "RemotesNode", "BranchesNode",
                                 "BranchOrTagFolderNode"}
                 \/ n = RemoteNodeOf(call[t])
      /\ \A n \in Tested(call[t]) :
           \A m \in Nodes :
             Kind(m) = "RemoteNode" /\ IsDescendant(n, m) => m = RemoteNodeOf(call[t])

\* the search for origin/feature found the branch under origin after it
\* pruned upstream and descended into the Branches section
C12_Witness ==
  /\ call[1].find = "findBranchRemote"
  /\ call[1].ref = <<"origin", "feature">>
  /\ call[1].result = "node"
  /\ call[1].node = <<"r1", "remotes", "origin", "feature">>
  /\ <<"r1", "remotes", "upstream">> \in EventsOf(call[1], "prune")
  /\ <<"r1", "remotes", "origin">> \in EventsOf(call[1], "children")
  /\ <<"r1", "branches">> \in EventsOf(call[1], "children")

\* the nodes on the path from the root to n, both included
PathFromRoot(n) == [i \in 1..(Len(n) + 1) |-> SubSeq(n, 1, i - 1)]
\* the search of call c ran to its end, neither cancelled nor failed
Completed(c) == c.result \in {"node", "undefined"} /\ ~c.cancelled
\* the Branch nodes that a findCommit search of call c is not scoped to
OtherBranches(c) ==
  {b \in Nodes : Kind(b) = "BranchNode" /\ ~(/\ StartsWith(b, RepositoryNodeId(c.repoPath))
                                             /\ BranchName(b) \in c.branches)}

\* C13: a findCommit search for a commit that only some local branches
\* contain (only feature/x, in a repository with main and feature/x) returns
\* the commit's node under a containing Branch node, and every other Branch
\* node (main) is refused by canTraverse: its history is never requested, no
\* loadMore is issued on it, and none of its commits is tested.
C13_CommitScoping ==
  \A t \in Tasks :
    call[t].find = "findCommitLocal" =>
      /\ \A b \in OtherBranches(call[t]) :
           /\ ~ArgCanTraverse(call[t], b)
           /\ b \notin Requested(call[t])
           /\ \A n \in Tested(call[t]) : ~IsDescendant(n, b)
      /\ Completed(call[t]) =>
           /\ call[t].result = "node"
           /\ CommitRef(call[t].node) = call[t].ref
           /\ Kind(Parent(call[t].node)) = "BranchNode"
           /\ StartsWith(call[t].node, BranchesNodeId(call[t].repoPath))
           /\ BranchName(Parent(call[t].node)) \in call[t].branches

\* the search for b3, which only feature/x contains, returned the node of b3
\* under feature/x, the sixth node on its path from the root, after main was
\* tested and refused
C13_Witness ==
  /\ call[1].find = "findCommitLocal"
  /\ call[1].branches = {<<"feature", "x">>}
  /\ Completed(call[1])
  /\ call[1].node = <<"r1", "branches", "feature", "x", "b3">>
  /\ Len(PathFromRoot(call[1].node)) = 6
  /\ <<"r1", "branches", "main">> \in EventsOf(call[1], "prune")

\* calls c and d were given the same operation and arguments
SameSearch(c, d) ==
  /\ c.method = d.method /\ c.repoPath = d.repoPath /\ c.ref = d.ref
  /\ c.remote = d.remote /\ c.allowPaging = d.allowPaging

C14_RevealDeterminism ==
  \A t, u \in Tasks :
    /\ SameSearch(call[t], call[u]) /\ Completed(call[t]) /\ Completed(call[u])
    /\ call[t].method \in Methods
    => call[t].result = call[u].result /\ call[t].node = call[u].node

\* the engine of call c saw the token cancelled and aborted the search
CancelSeen(c) == \E i \in Idx(c) : Ev(c, i).ev = "cancelSeen"

\* C15: a search aborted by cancellation ends its operation with undefined
\* and without any UI operation, and neither the aborting step nor any later
\* step removes a child that was materialized or paged in.
C15_CancellationKeepsMaterialization ==
  [][ \A t \in Tasks :
        CancelSeen(call'[t]) =>
          /\ call'[t].pc = "done"
          /\ call'[t].outcome = "undefined"
          /\ call'[t].ui = <<>>
          /\ \A n \in Nodes : MaterializedSet(n, pages) \subseteq MaterializedSet(n, pages')
    ]_vars

\* revealBranch was cancelled while the children of the Branches node were
\* fetched: the fetched children, and those fetched before, are kept
C15_Witness ==
  /\ call[1].method = "revealBranch"
  /\ CancelSeen(call[1])
  /\ call[1].cancelPc = "children"
  /\ call[1].cur = BranchesNodeId("r1")
  /\ call[1].pages0 = NoPages
  /\ MaterializedSet(BranchesNodeId("r1"), pages) # {}
  /\ MaterializedSet(RepositoryNodeId("r1"), pages) # {}
  /\ call[1].ui = <<>>

\* the nodes call c popped from the frontier and tested, in order
Pops(c) == SelectSeq(c.trace, LAMBDA e : e.ev = "test")
\* the position of n among the children of its parent
ChildIndex(n) == CHOOSE i \in 1..Len(AllChildren(Parent(n))) : AllChildren(Parent(n))[i] = n
\* m comes before n in the insertion order of their common level
LevelBefore(m, n) ==
  \E k \in 1..Len(m) :
    /\ SubSeq(m, 1, k - 1) = SubSeq(n, 1, k - 1)
    /\ ChildIndex(SubSeq(m, 1, k)) < ChildIndex(SubSeq(n, 1, k))
\* child m is among the children its parent hands to call c: every child of
\* an unpaged node; of a paged node the first page and the pages loaded when
\* the call began, and every page when the call pages
Offered(c, m) ==
  \/ ~Pageable(Parent(m))
  \/ AllowPagingOf(c.find, c.allowPaging)
  \/ ChildIndex(m) <= PageSize
  \/ m \in MaterializedSet(Parent(m), c.pages0)
\* n can be reached by call c under the pruning and depth rules
Reachable(c, n) ==
  /\ n # Root
  /\ \A k \in 1..Len(n) : Offered(c, SubSeq(n, 1, k))
  /\ \A k \in 1..(Len(n) - 1) :
       /\ ArgCanTraverse(c, SubSeq(n, 1, k))
       /\ ~DepthPrunes(SubSeq(n, 1, k), MaxDepthOf(c.find))

\* C16: a search pops nodes breadth-first, level by level and each level in
\* insertion order (so no node twice); the first popped node that matches
\* ends the search at once and is its result, nothing is visited after it;
\* the result has minimum depth among the matching nodes reachable under the
\* pruning and depth rules.
C16_ShallowestFirstMatch ==
  \A t \in Tasks :
    call[t].find \in Finds =>
      LET c == call[t]
          p == Pops(c)
      IN  /\ \A i, j \in 1..Len(p) :
                i < j => \/ Depth(p[i].n) < Depth(p[j].n)
                         \/ Depth(p[i].n) = Depth(p[j].n) /\ LevelBefore(p[i].n, p[j].n)
          /\ \A i \in Idx(c) :
                Ev(c, i).ev = "test" /\ ArgMatches(c, Ev(c, i).n) =>
                  /\ i = Len(c.trace)
                  /\ c.result = "node" /\ c.node = Ev(c, i).n
          /\ c.result = "node" =>
                /\ p # <<>> /\ c.node = p[Len(p)].n
                /\ ArgMatches(c, c.node)
                /\ \A n \in Nodes :
                      Reachable(c, n) /\ ArgMatches(c, n) => Depth(c.node) <= Depth(n)

\* a search that pages has returned commit b1 of r2's main branch, at depth
\* 4 and on the second page, and not the b1 of r1's feature/x at depth 5,
\* which matches and is reachable too; it popped both repositories, r2 first
C16_Witness ==
  /\ call[1].find = "findNode" /\ call[1].allowPaging
  /\ call[1].result = "node"
  /\ call[1].node = <<"r2", "branches", "main", "b1">>
  /\ Reachable(call[1], <<"r1", "branches", "feature", "x", "b1">>)
  /\ ArgMatches(call[1], <<"r1", "branches", "feature", "x", "b1">>)
  /\ \E i, j \in 1..Len(Pops(call[1])) :
       i < j /\ Pops(call[1])[i].n = <<"r2">> /\ Pops(call[1])[j].n = <<"r1">>

\* C17: the matcher is applied to a node before canTraverse is: every node
\* that canTraverse refused, and every node whose children were requested,
\* was tested first; a tested node that matches is the result whether or not
\* canTraverse admits it, and canTraverse is not applied to it.
C17_TestedBeforeCanTraverse ==
  \A t \in Tasks :
    call[t].find \in Finds =>
      LET c == call[t]
      IN  /\ \A i \in Idx(c) :
                Ev(c, i).ev \in {"prune", "children", "until"} /\ Ev(c, i).n # Root =>
                  \E j \in 1..(i - 1) : Ev(c, j) = [ev |-> "test", n |-> Ev(c, i).n]
          /\ \A i \in Idx(c) :
                Ev(c, i).ev = "test" /\ ArgMatches(c, Ev(c, i).n) =>
                  /\ c.result = "node" /\ c.node = Ev(c, i).n
                  /\ \A j \in Idx(c) :
                        Ev(c, j).ev \in {"prune", "children", "until"} => Ev(c, j).n # Ev(c, i).n
          /\ \A i \in Idx(c) :
                Ev(c, i).ev = "prune" =>
                  /\ ~ArgCanTraverse(c, Ev(c, i).n)
                  /\ ~ArgMatches(c, Ev(c, i).n)

\* findBranch for the local branch feature/x has returned its BranchNode,
\* which canTraverse refuses, after it tested and then pruned the BranchNode
\* of main
C17_Witness ==
  /\ call[1].find = "findBranchLocal"
  /\ call[1].result = "node"
  /\ call[1].node = <<"r1", "branches", "feature", "x">>
  /\ Kind(call[1].node) = "BranchNode"
  /\ ~FindBranchLocalCanTraverse(call[1].node, call[1].repoPath)
  /\ call[1].node \in EventsOf(call[1], "test")
  /\ <<"r1", "branches", "main">> \in EventsOf(call[1], "test")
  /\ <<"r1", "branches", "main">> \in EventsOf(call[1], "prune")

\* C18: the root of the search is never tested against the matcher, never
\* waits in the frontier and is never the result, whatever the matcher.
C18_RootNeverTested ==
  \A t \in Tasks :
    call[t].find \in Finds =>
      /\ Root \notin Tested(call[t])
      /\ \A i \in 1..Len(call[t].queue) : call[t].queue[i] # Root
      /\ call[t].node # Root

\* a search for the id of the root itself, which the root satisfies, has
\* walked the tree below the root and returned undefined
C18_Witness ==
  /\ call[1].find = "findNodeById"
  /\ call[1].ref = Root
  /\ ArgMatches(call[1], Root)
  /\ call[1].pc = "done"
  /\ call[1].result = "undefined"
  /\ Root \in EventsOf(call[1], "children")
  /\ RepositoryNodeId("r1") \in EventsOf(call[1], "test")

\* the searches built by the find* operations and the section reveals
QueryFinds == Finds \ {"findNode", "findNodeById"}
\* n is the root, or its id starts with the id of the repository call c targets
InTargetRepository(c, n) ==
  Kind(n) = "RepositoriesNode" \/ StartsWith(n, RepositoryNodeId(c.repoPath))

\* C19: in the search of every find* operation and section reveal,
\* canTraverse admits a node only if it is the root or its id starts with the
\* id of the target repository's node; nothing below the node of another
\* repository is tested, and no children or page of a node outside the
\* target repository is requested.
C19_RepositoryScoping ==
  \A t \in Tasks :
    call[t].find \in QueryFinds =>
      LET c == call[t]
      IN  /\ \A n \in Nodes : ArgCanTraverse(c, n) => InTargetRepository(c, n)
          /\ \A i \in Idx(c) :
                /\ Ev(c, i).ev \in {"test", "peek"} =>
                     Kind(Ev(c, i).n) = "RepositoryNode" \/ InTargetRepository(c, Ev(c, i).n)
                /\ Ev(c, i).ev \in Requests => InTargetRepository(c, Ev(c, i).n)
          /\ \A i \in 1..Len(c.queue) :
                Kind(c.queue[i]) = "RepositoryNode" \/ InTargetRepository(c, c.queue[i])
          /\ c.result = "node" => InTargetRepository(c, c.node)

\* findTag has returned tag v1 of r1 after it tested and pruned the node of
\* repository r2, which comes first and holds a tag v1 that matches as well
C19_Witness ==
  /\ call[1].find = "findTag"
  /\ call[1].repoPath = "r1"
  /\ call[1].result = "node"
  /\ call[1].node = <<"r1", "tags", "v1">>
  /\ RepositoryNodeId("r2") \in EventsOf(call[1], "test")
  /\ RepositoryNodeId("r2") \in EventsOf(call[1], "prune")
  /\ ArgMatches(call[1], <<"r2", "tags", "v1">>)

\* the kinds of node a search for a local branch descends through
LocalBranchChain == {"RepositoriesNode", "RepositoryNode", "BranchesNode", "BranchOrTagFolderNode"}
\* n is the root, the node of the repository of call c, its BranchesNode, or
\* a folder node below that BranchesNode
OnLocalBranchChain(c, n) ==
  \/ n = Root
  \/ n = RepositoryNodeId(c.repoPath)
  \/ n = BranchesNodeId(c.repoPath)
  \/ Kind(n) = "BranchOrTagFolderNode" /\ IsDescendant(n, BranchesNodeId(c.repoPath))

\* C20: in findBranch's search for a local branch canTraverse is false for
\* every node that is not a RepositoriesNode, RepositoryNode, BranchesNode or
\* BranchOrTagFolderNode (so for RemotesNode, RemoteNode, TagsNode,
\* StashesNode, ContributorsNode, WorktreesNode and BranchNode); the search
\* requests the children of no node but the root, the owning RepositoryNode,
\* its BranchesNode and the folders below it, and tests only their children.
C20_LocalBranchScoping ==
  \A t \in Tasks :
    call[t].find = "findBranchLocal" =>
      LET c == call[t]
      IN  /\ \A n \in Nodes : ArgCanTraverse(c, n) => Kind(n) \in LocalBranchChain
          /\ \A i \in Idx(c) :
                /\ Ev(c, i).ev \in Requests => OnLocalBranchChain(c, Ev(c, i).n)
                /\ Ev(c, i).ev \in {"test", "peek"} => OnLocalBranchChain(c, Parent(Ev(c, i).n))
          /\ \A i \in 1..Len(c.queue) : OnLocalBranchChain(c, Parent(c.queue[i]))

\* findBranch for the local branch feature/x has returned its node through
\* the folder feature, after it pruned the other sections of r1 and the
\* BranchNode of main, all of which have children
C20_Witness ==
  /\ call[1].find = "findBranchLocal"
  /\ call[1].result = "node"
  /\ call[1].node = <<"r1", "branches", "feature", "x">>
  /\ <<"r1", "branches", "feature">> \in EventsOf(call[1], "children")
  /\ \A n \in { <<"r1", "remotes">>, StashesNodeId("r1"), TagsNodeId("r1"),
                WorktreesNodeId("r1"), <<"r1", "contributors">>,
                <<"r1", "branches", "main">> } :
       /\ n \in EventsOf(call[1], "prune")
       /\ AllChildren(n) # <<>>
  /\ call[1].pages0 = NoPages

\* the containment results of the commit that call c looks for
LocalBranches(c) == GetCommitBranches(c.repoPath, c.ref, FALSE)
RemoteBranches(c) == GetCommitBranches(c.repoPath, c.ref, TRUE)
\* the events of call c that belong to a traversal
TraversalEvents(c) == {i \in Idx(c) : Ev(c, i).ev \in Visits \cup {"prune"}}
\* call c has ended its find step without cancellation or failure
FindEnded(c) == c.result \in {"node", "undefined"} /\ ~c.cancelled

\* C21: findCommit queries local containment first and remote containment
\* only when the local answer is empty; a non-empty local answer starts the
\* local search (maxDepth 6) and nothing else, whose result is returned; two
\* empty answers return undefined with no traversal; an empty local and a
\* non-empty remote answer start the remote search (maxDepth 8), which
\* descends only into Remote nodes named by the first segment of a
\* containing branch.  A call never changes the search it started.
C21_CommitResolutionOrder ==
  [][ \A t \in Tasks :
        LET c == call'[t]
        IN  /\ c.method = "revealCommit" /\ c.pc # "gated" =>
                 /\ Ev(c, 1).ev = "resolveLocal"
                 /\ \A i \in Idx(c) : i > 1 => Ev(c, i).ev # "resolveLocal"
                 /\ \A i \in Idx(c) :
                       Ev(c, i).ev = "resolveRemote" =>
                         /\ i = 2
                         /\ LocalBranches(c) = {}
                 /\ c.find \in {"", "findCommitLocal", "findCommitRemote"}
                 /\ c.find = "" => TraversalEvents(c) = {}
                 /\ c.find = "findCommitLocal" =>
                       /\ LocalBranches(c) # {} /\ c.branches = LocalBranches(c)
                       /\ MaxDepthOf(c.find) = 6
                       /\ Len(c.trace) > 1 => Ev(c, 2).ev # "resolveRemote"
                 /\ c.find = "findCommitRemote" =>
                       /\ LocalBranches(c) = {} /\ RemoteBranches(c) # {}
                       /\ c.branches = RemoteBranches(c)
                       /\ MaxDepthOf(c.find) = 8
                       /\ \A n \in Requested(c) :
                             Kind(n) = "RemoteNode" =>
                               \E b \in RemoteBranches(c) : RemoteName(n) = b[1]
                 /\ FindEnded(c) /\ LocalBranches(c) # {} => c.find = "findCommitLocal"
                 /\ FindEnded(c) /\ LocalBranches(c) = {} /\ RemoteBranches(c) = {} =>
                       c.find = "" /\ c.result = "undefined" /\ c.outcome = "undefined"
                 /\ FindEnded(c) /\ LocalBranches(c) = {} /\ RemoteBranches(c) # {} =>
                       c.find = "findCommitRemote"
                 /\ c.pc = "done" /\ FindEnded(c) => c.outcome = c.result
            /\ call[t].method = "revealCommit" /\ call[t].find # "" /\ InFlight(call[t]) =>
                 call'[t].find = call[t].find
    ]_vars

\* findCommit has found commit d3, which no local branch and only the remote
\* branch origin/feature holds: after both queries it ran the remote search
\* through the Remote node origin and pruned upstream
C21_Witness ==
  /\ call[1].method = "revealCommit"
  /\ call[1].ref = <<"d3">>
  /\ call[1].find = "findCommitRemote"
  /\ call[1].result = "node"
  /\ Ev(call[1], 1).ev = "resolveLocal" /\ Ev(call[1], 2).ev = "resolveRemote"
  /\ <<"r1", "remotes", "origin">> \in Requested(call[1])
  /\ <<"r1", "remotes", "upstream">> \in EventsOf(call[1], "prune")

\* call c requested loadMore({until}) on b before its event i
UntilBefore(c, b, i) == \E j \in 1..(i - 1) : Ev(c, j) = [ev |-> "until", n |-> b]

\* C22: in findCommit's local search loadMore({until: commit.ref}) is invoked
\* only on BranchNodes of the target repository whose branch is in the
\* containing set; the children of a BranchNode are fetched, paged or tested
\* only after that loadMore was requested on it and has completed, the
\* history then being loaded up to the commit.
C22_LoadUntilBeforeDescent ==
  \A t \in Tasks :
    call[t].find = "findCommitLocal" =>
      LET c == call[t]
      IN  /\ \A i \in Idx(c) :
                Ev(c, i).ev = "until" =>
                  /\ Kind(Ev(c, i).n) = "BranchNode"
                  /\ StartsWith(Ev(c, i).n, RepositoryNodeId(c.repoPath))
                  /\ BranchName(Ev(c, i).n) \in LocalBranches(c)
          /\ \A i \in Idx(c) :
                /\ Ev(c, i).ev \in {"children", "page"} /\ Kind(Ev(c, i).n) = "BranchNode" =>
                     UntilBefore(c, Ev(c, i).n, i)
                /\ Ev(c, i).ev \in {"test", "peek"} /\ Kind(Parent(Ev(c, i).n)) = "BranchNode" =>
                     /\ UntilBefore(c, Parent(Ev(c, i).n), i)
                     /\ Loaded(pages, Parent(Ev(c, i).n)) >= PageOfRef(Parent(Ev(c, i).n), c.ref)
          /\ c.pc = "loadUntil" =>
                /\ \A n \in Tested(c) \cup Requested(c) : Parent(n) # c.cur
                /\ c.cur \notin EventsOf(c, "children") \cup EventsOf(c, "page")
                /\ \A i \in 1..Len(c.queue) : Parent(c.queue[i]) # c.cur

\* findCommit has found b3 on the third page of feature/x, of which nothing
\* was loaded: loadMore({until}) was requested on feature/x and on no other
\* node, main (not containing b3) was pruned, and b3 was tested afterwards
C22_Witness ==
  /\ call[1].find = "findCommitLocal"
  /\ call[1].ref = <<"b3">>
  /\ call[1].result = "node"
  /\ Loaded(call[1].pages0, <<"r1", "branches", "feature", "x">>) = 0
  /\ EventsOf(call[1], "until") = {<<"r1", "branches", "feature", "x">>}
  /\ <<"r1", "branches", "main">> \in EventsOf(call[1], "prune")
  /\ call[1].node \in EventsOf(call[1], "test")
  /\ Loaded(pages, <<"r1", "branches", "feature", "x">>) = PageOfRef(<<"r1", "branches", "feature", "x">>, <<"b3">>)

\* the searches whose depth bound is 2
DepthTwoFinds == {"findWorktree", "findContributor", "findRemote"}
\* the nodes of the repository of call c that satisfy its matcher
TargetsOf(c) ==
  {n \in Nodes : ArgMatches(c, n) /\ StartsWith(n, RepositoryNodeId(c.repoPath))}

\* C23: with the tree shaped root -> Repository -> section -> entity, a
\* findWorktree, findContributor or findRemote search (maxDepth 2) that ends
\* without cancellation or provider failure returns the existing target node
\* of the target repository.
C23_DepthBoundsSufficient ==
  \A t \in Tasks :
    /\ call[t].find \in DepthTwoFinds
    /\ FindEnded(call[t])
    /\ TargetsOf(call[t]) # {}
    => call[t].result = "node" /\ call[t].node \in TargetsOf(call[t])

\* C23, what the searches do: the section node, at depth 2, is tested and
\* admitted by canTraverse, its children are never requested, the entity at
\* depth 3 is never tested, and the search returns undefined.
C23_EntityBelowDepthBound ==
  \A t \in Tasks :
    call[t].find \in DepthTwoFinds /\ FindEnded(call[t]) =>
      /\ call[t].result = "undefined"
      /\ \A n \in TargetsOf(call[t]) :
            /\ Depth(n) = 3
            /\ n \notin Tested(call[t])
            /\ ArgCanTraverse(call[t], Parent(n))
            /\ Parent(n) \notin Requested(call[t])

\* findWorktree for the existing worktree w1 of r1 has ended, uncancelled and
\* without failure, after testing the WorktreesNode of r1
C23_Witness ==
  /\ call[1].find = "findWorktree"
  /\ FindEnded(call[1])
  /\ WorktreeNodeId("r1", "w1") \in TargetsOf(call[1])
  /\ WorktreesNodeId("r1") \in EventsOf(call[1], "test")

\* node n is the node of the entity that call c was given
OwnTarget(c, n) ==
  /\ StartsWith(n, RepositoryNodeId(c.repoPath))
  /\ CASE c.method = "revealBranch" ->
            Kind(n) = "BranchNode" /\ BranchName(n) = c.ref /\ (n[2] = "remotes") = c.remote
       [] c.method = "revealCommit" -> Kind(n) = "CommitNode" /\ CommitRef(n) = c.ref
       [] c.method = "revealTag" -> Kind(n) = "TagNode" /\ TagRef(n) = c.ref
       [] c.method = "revealRemote" -> Kind(n) = "RemoteNode" /\ <<RemoteName(n)>> = c.ref
       [] c.method = "revealStash" -> n = StashNodeId(c.repoPath, c.ref[1])
       [] c.method = "revealWorktree" -> n = WorktreeNodeId(c.repoPath, c.ref[1])
       [] OTHER -> TRUE
EntityReveals == {"revealBranch", "revealCommit", "revealTag", "revealRemote",
                  "revealStash", "revealWorktree"}

C25_LogCacheCoherence ==
  currentLog # UndefinedLog => currentLog.repoPath = selectedRepository

\* C26: whenever a repository is selected, the live onDidChange
\* subscription of GraphWebview is the subscription to that repository.
C26_SubscriptionFollowsSelection ==
  selectedRepository # Undefined => repoDisposable = selectedRepository

\* job j takes this step as (part of) an operation of the given kind
JobSteps(j, kind) == gjob'[j] # gjob[j] /\ gjob'[j].kind = kind
\* job j is invoked in this step
JobInvoked(j, kind) == JobSteps(j, kind) /\ JobFree(j)

OpenRepository(path) == IF path # "" /\ path \in GraphRepos THEN path ELSE Undefined
\* the assignments of changeRepository(path) itself
ChangeRepositoryBody(path) ==
  IF selectedRepository = path
  THEN selectedRepository' = selectedRepository /\ currentLog' = currentLog
  ELSE selectedRepository' = OpenRepository(path) /\ currentLog' = UndefinedLog

IsStashCommit(commit) == commit.sha[1] = "stash"
\* the stash commit has no parents, or its first parent is in the log
KeptByLog(commit, log) ==
  ParentsLength(commit) = 0 \/ commit.parents[1][1] \in LogCommits(log)

\* C29: filterStashCommits returns the empty list when the stash list or the
\* log is undefined, and otherwise exactly the stash commits that have no
\* parents or whose first parent is a commit of the log, in the order of the
\* stash list; the commits of the state that getState builds hold no stash
\* commit whose first parent is outside the log of that state.
C29_FilterStashCommits ==
  filteredStashCommits # None =>
    LET out == filteredStashCommits[1]
    IN  /\ (stashCommits = None \/ stashLog = UndefinedLog) => out = <<>>
        /\ (stashCommits # None /\ stashLog # UndefinedLog) =>
             LET given == stashCommits[1]
                 kept == {i \in 1..Len(given) : KeptByLog(given[i], stashLog)}
             IN  \E f \in [1..Len(out) -> 1..Len(given)] :
                   /\ \A i \in 1..Len(out) : out[i] = given[f[i]]
                   /\ \A i, k \in 1..Len(out) : i < k => f[i] < f[k]
                   /\ {f[i] : i \in 1..Len(out)} = kept
        /\ \A i \in 1..Len(stateCommits[1]) :
             IsStashCommit(stateCommits[1][i]) => KeptByLog(stateCommits[1][i], stashLog)
        /\ \A i \in 1..Len(stateCommits[1]) :
             ~IsStashCommit(stateCommits[1][i]) => stateCommits[1][i].sha \in LogCommits(stashLog)

\* of three stash commits the second, whose first parent is outside the log
\* and whose second parent is in it, was dropped, and the first and third
\* were kept in their order and follow the commits of the log in the state
C29_Witness ==
  /\ filteredStashCommits # None /\ stashCommits # None /\ stashLog # UndefinedLog
  /\ Len(stashCommits[1]) = 3
  /\ stashCommits[1][2] = StashCommit("foreignFirst")
  /\ stashCommits[1][1] = StashCommit("first")
  /\ stashCommits[1][3] = StashCommit("none")
  /\ filteredStashCommits[1] = <<stashCommits[1][1], stashCommits[1][3]>>
  /\ stashLog.count > 0
  /\ stateCommits[1] = LogCommitList(stashLog) \o filteredStashCommits[1]

\* a call of setAutoRefresh takes this step as j
RefreshSteps(j) == rjob'[j] # rjob[j]
\* a call of setAutoRefresh ends in this step as j
RefreshEnding(j) == RefreshSteps(j) /\ rjob'[j].pc = "done"
\* the workspaceEnabled the call ends with: given, or read from storage
EffectiveWorkspaceEnabled(job) ==
  IF job.workspaceEnabled # None THEN job.workspaceEnabled[1]
  ELSE GetWorkspaceAutoRefresh(storedAutoRefresh)
IsRefreshCommand(job) == job.kind \in {"setAutoRefreshToOn", "setAutoRefreshToOff"}

\* C30, the effect of one call: storage is written only by a call with
\* enabled true and workspaceEnabled given, and then holds workspaceEnabled;
\* the context key is set to enabled AND workspaceEnabled (read from storage,
\* default true, when omitted); onDidChangeAutoRefresh fires once, when the
\* call ends.
C30_SetAutoRefreshEffects ==
  [][ \A j \in RefreshJobs :
        RefreshSteps(j) =>
          LET job == rjob'[j]
              writes == job.enabled /\ job.workspaceEnabled # None
          IN  /\ ~RefreshEnding(j) =>
                   UNCHANGED <<storedAutoRefresh, contextAutoRefresh, fired>>
              /\ RefreshEnding(j) =>
                   /\ storedAutoRefresh' =
                        IF writes THEN job.workspaceEnabled ELSE storedAutoRefresh
                   /\ contextAutoRefresh' =
                        Some(job.enabled /\ EffectiveWorkspaceEnabled(job))
                   /\ fired' = fired + 1
                   /\ job.fired = 1
    ]_vars

\* C30: every call of setAutoRefresh has the effect above, and when a
\* setAutoRefreshToOn or setAutoRefreshToOff command ends, the autoRefresh
\* getter equals the value the command has set into the context key.
C30_SetAutoRefresh ==
  [][ \A j \in RefreshJobs :
        RefreshSteps(j) =>
          LET job == rjob'[j]
              writes == job.enabled /\ job.workspaceEnabled # None
          IN  /\ ~RefreshEnding(j) =>
                   UNCHANGED <<storedAutoRefresh, contextAutoRefresh, fired>>
              /\ RefreshEnding(j) =>
                   /\ storedAutoRefresh' =
                        IF writes THEN job.workspaceEnabled ELSE storedAutoRefresh
                   /\ contextAutoRefresh' =
                        Some(job.enabled /\ EffectiveWorkspaceEnabled(job))
                   /\ fired' = fired + 1
                   /\ job.fired = 1
                   /\ IsRefreshCommand(job) =>
                        AutoRefresh(configAutoRefresh', storedAutoRefresh') = contextAutoRefresh'[1]
    ]_vars

====
